---- MODULE Spec2Model ----
(***************************************************************************)
(* Verification model of the Reach / etphonehome control plane.            *)
(*                                                                         *)
(*   Spec       server: /internal/register, the Registry, the Connection   *)
(*              Pool, the Health Monitor and the operator run endpoint     *)
(*   SpecCodec  the length-prefixed message codec and Request JSON         *)
(*   SpecAgent  the agent-side dispatcher (Agent.handle_request)           *)
(***************************************************************************)
EXTENDS Integers, Sequences, FiniteSets, TLC

\* ------------------------------------------------------------------ bounds
\* Registrations the SSH listener posts in one behaviour.
MaxRegistrations == 2
\* Operator run requests in one behaviour.
MaxRequests == 2

\* ------------------------------------------------------------- input sets
Uuids == {"U1", "U2"}
\* identity.uuid may be missing from the payload: the handler reads "unknown".
UnknownUuid == "unknown"
\* client_info.client_id may be missing from the payload (None).
NoClientId == "none"
ClientIds == {"c1", "c2"}
Ports == {40001, 40777}
Fingerprints == {"SHA256:AAA", "SHA256:BBB"}
NoFingerprint == "none"
\* The registration payloads the listener posts: U1 registers, reconnects as a
\* new process on a new port, reconnects with another key; U2 registers.
Registrations ==
    {[uuid |-> "U1", client_id |-> "c1", tunnel_port |-> 40001, fingerprint |-> "SHA256:AAA"],
     [uuid |-> "U1", client_id |-> "c2", tunnel_port |-> 40777, fingerprint |-> "SHA256:AAA"],
     [uuid |-> "U1", client_id |-> "c1", tunnel_port |-> 40777, fingerprint |-> "SHA256:BBB"],
     [uuid |-> "U2", client_id |-> "c3", tunnel_port |-> 40002, fingerprint |-> "SHA256:AAA"]}

\* ------------------------------------------------------------------ state
VARIABLES
    identities,     \* Registry: uuid -> Client Identity record, or NoIdentity
    connections,    \* Registry: the set of Client Connection records
    pool,           \* Connection Pool: uuid -> cached RPC client, or NoEntry
    health,         \* Health Monitor: uuid -> [consecutive_failures, grace]
    regTasks,       \* internal_register requests in flight
    opTasks,        \* api_run_command requests in flight
    lastStatus,     \* HTTP status of the last finished request (0: none yet)
    superseded,     \* history: uuid -> tunnel ports of its replaced Connections
    nRegs, nReqs,
    sentMsgs,       \* codec: the messages written to the stream, in order
    stream,         \* codec: the bytes of the stream not yet decoded
    recvMsgs,       \* codec: the messages decode_message has returned, in order
    codecLast,      \* codec: the last call made: [kind, arg, input, result]
    ssh_clients,    \* agent: SSHSessionManager._clients (session ids)
    ssh_shells,     \* agent: SSHSessionManager._shells (session ids)
    ssh_session_info, \* agent: SSHSessionManager._session_info: id -> host
    agentLast,      \* agent: the last handle_request call and what it gave
    nServed,        \* agent: requests handled so far
    erredBefore,    \* agent: an earlier request was answered with an error
    pathLast,       \* path policy: the last _validate_path call and its outcome
    agent_allowed_paths,  \* file agent: Agent.allowed_paths ("unset" before __init__)
    fs,             \* file agent: the filesystem: resolved path -> [type, data]
    cmdsRun,        \* file agent: subprocesses started so far
    fileLast,       \* file agent: the last request, its outcome, the state before it
    lastWrite,      \* file agent: the last write_file that succeeded
    nFileOps,       \* file agent: requests handled so far
    shutdownLast,   \* agent shutdown: the close_all call made, if any
    http_app,       \* HTTP: what create_http_app returned (NoApp before the call)
    httpLast,       \* HTTP: the last ASGI scope served and what came of it
    nHttp,          \* HTTP: scopes served so far
    appCalls,       \* HTTP: times the wrapped Starlette application was invoked
    history,        \* operator API: the command_history rows, in insertion order
    events,         \* operator API: EventStore._events, newest first
    ws_connections, \* operator API: WebSocketManager._connections
    wsHandlers,     \* operator API: socket -> [pc of its handler, messages delivered]
    apiLast,        \* operator API: the last operator request, its outcome, the state before
    nApi,           \* operator API: operator requests served so far
    historyLast,    \* command history: the last history query, the table it read, its answer
    eventLog,       \* event store: every event ever added, oldest first
    eventsLast,     \* event store: the last get_recent call, the deque it read, its answer
    sftp_allowed_paths,\* SFTP: ClientSFTPInterface.allowed_paths
    sftpLast,       \* SFTP: the last rename, the filesystem before it, its code
    nSftpOps,       \* SFTP: renames and opens asked for
    sftpOpenLast,   \* SFTP: the last open, the filesystem before it, its mode and result
    beats,          \* Health Monitor: uuid -> the heartbeat results, each with the grace flag and the registration count at the probe
    emitted,        \* Health Monitor: the events it emitted
    nBeats,         \* Health Monitor: heartbeats probed
    sendCall,       \* send_command: its position, the shell, the clock and its locals
    ws_lock,        \* WebSocketManager._lock: free, or the task that holds it
    ws_broadcasts,  \* broadcast tasks: position, sockets still to send to, failed, sent
    hs_store,       \* history store: _lock, _initialized, and counts of schema initialisations and statements
    hs_tasks,       \* history store: the concurrent calls and their positions
    storeLast,      \* history store: the last delete_old or detail lookup, its inputs and its answer
    sftp_conn,      \* SFTPConnection: ssh_client and sftp present or None, _connected
    connLast,       \* SFTPConnection: the last call, the object before it, its worker-thread calls and its error
    nConnOps,       \* SFTPConnection: calls made
    transferLast    \* HTTP API: the last upload, and the download that followed it

serverVars == <<identities, connections, pool, health, regTasks, opTasks,
                lastStatus, superseded, nRegs, nReqs>>

codecVars == <<sentMsgs, stream, recvMsgs, codecLast>>

agentVars == <<ssh_clients, ssh_shells, ssh_session_info, agentLast, nServed, erredBefore>>

policyVars == <<pathLast>>

fileVars == <<agent_allowed_paths, fs, cmdsRun, fileLast, lastWrite, nFileOps>>

shutdownVars == <<shutdownLast>>

httpVars == <<http_app, httpLast, nHttp, appCalls>>

apiVars == <<history, events, ws_connections, wsHandlers, apiLast, nApi>>

historyVars == <<historyLast>>

eventsVars == <<eventLog, eventsLast>>

sftpVars == <<sftp_allowed_paths, sftpLast, nSftpOps, sftpOpenLast>>

healthVars == <<beats, emitted, nBeats>>

sendVars == <<sendCall>>

wsVars == <<ws_lock, ws_broadcasts>>

storeVars == <<hs_store, hs_tasks>>

retentionVars == <<storeLast>>

connVars == <<sftp_conn, connLast, nConnOps>>

transferVars == <<transferLast>>

nonServerVars == <<codecVars, agentVars, policyVars, fileVars, shutdownVars, httpVars, apiVars, historyVars, eventsVars, sftpVars, healthVars, sendVars, wsVars, storeVars, retentionVars, connVars, transferVars>>
nonCodecVars == <<serverVars, agentVars, policyVars, fileVars, shutdownVars, httpVars, apiVars, historyVars, eventsVars, sftpVars, healthVars, sendVars, wsVars, storeVars, retentionVars, connVars, transferVars>>
nonAgentVars == <<serverVars, codecVars, policyVars, fileVars, shutdownVars, httpVars, apiVars, historyVars, eventsVars, sftpVars, healthVars, sendVars, wsVars, storeVars, retentionVars, connVars, transferVars>>
nonPolicyVars == <<serverVars, codecVars, agentVars, fileVars, shutdownVars, httpVars, apiVars, historyVars, eventsVars, sftpVars, healthVars, sendVars, wsVars, storeVars, retentionVars, connVars, transferVars>>
nonFileVars == <<serverVars, codecVars, agentVars, policyVars, shutdownVars, httpVars, apiVars, historyVars, eventsVars, sftpVars, healthVars, sendVars, wsVars, storeVars, retentionVars, connVars, transferVars>>
nonHttpVars == <<serverVars, codecVars, agentVars, policyVars, fileVars, shutdownVars, apiVars, historyVars, eventsVars, sftpVars, healthVars, sendVars, wsVars, storeVars, retentionVars, connVars, transferVars>>
nonApiVars == <<serverVars, codecVars, agentVars, policyVars, fileVars, shutdownVars, httpVars, historyVars, eventsVars, sftpVars, healthVars, sendVars, wsVars, storeVars, retentionVars, connVars, transferVars>>
nonServerApiVars == <<codecVars, agentVars, policyVars, fileVars, shutdownVars, httpVars, historyVars, eventsVars, sftpVars, healthVars, sendVars, wsVars, storeVars, retentionVars, connVars, transferVars>>
nonHistoryVars == <<serverVars, codecVars, agentVars, policyVars, fileVars, shutdownVars, httpVars, apiVars, eventsVars, sftpVars, healthVars, sendVars, wsVars, storeVars, retentionVars, connVars, transferVars>>
nonApiHistoryVars == <<serverVars, codecVars, agentVars, policyVars, fileVars, shutdownVars, httpVars, eventsVars, sftpVars, healthVars, sendVars, wsVars, storeVars, retentionVars, connVars, transferVars>>
nonEventsVars == <<serverVars, codecVars, agentVars, policyVars, fileVars, shutdownVars, httpVars, apiVars, historyVars, sftpVars, healthVars, sendVars, wsVars, storeVars, retentionVars, connVars, transferVars>>
nonApiEventsVars == <<serverVars, codecVars, agentVars, policyVars, fileVars, shutdownVars, httpVars, historyVars, sftpVars, healthVars, sendVars, wsVars, storeVars, retentionVars, connVars, transferVars>>
nonSftpVars == <<serverVars, codecVars, agentVars, policyVars, fileVars, shutdownVars, httpVars, apiVars, historyVars, eventsVars, healthVars, sendVars, wsVars, storeVars, retentionVars, connVars, transferVars>>
nonFileSftpVars == <<serverVars, codecVars, agentVars, policyVars, shutdownVars, httpVars, apiVars, historyVars, eventsVars, healthVars, sendVars, wsVars, storeVars, retentionVars, connVars, transferVars>>
nonHealthVars == <<serverVars, codecVars, agentVars, policyVars, fileVars, shutdownVars, httpVars, apiVars, historyVars, eventsVars, sftpVars, sendVars, wsVars, storeVars, retentionVars, connVars, transferVars>>
nonServerHealthVars == <<codecVars, agentVars, policyVars, fileVars, shutdownVars, httpVars, apiVars, historyVars, eventsVars, sftpVars, sendVars, wsVars, storeVars, retentionVars, connVars, transferVars>>
nonSendVars == <<serverVars, codecVars, agentVars, policyVars, fileVars, shutdownVars, httpVars, apiVars, historyVars, eventsVars, sftpVars, healthVars, wsVars, storeVars, retentionVars, connVars, transferVars>>
nonWsVars == <<serverVars, codecVars, agentVars, policyVars, fileVars, shutdownVars, httpVars, apiVars, historyVars, eventsVars, sftpVars, healthVars, sendVars, storeVars, retentionVars, connVars, transferVars>>
nonApiWsVars == <<serverVars, codecVars, agentVars, policyVars, fileVars, shutdownVars, httpVars, historyVars, eventsVars, sftpVars, healthVars, sendVars, storeVars, retentionVars, connVars, transferVars>>
nonApiRetentionVars == <<serverVars, codecVars, agentVars, policyVars, fileVars, shutdownVars, httpVars, historyVars, eventsVars, sftpVars, healthVars, sendVars, storeVars, wsVars, connVars, transferVars>>
nonStoreVars == <<serverVars, codecVars, agentVars, policyVars, fileVars, shutdownVars, httpVars, apiVars, historyVars, eventsVars, sftpVars, healthVars, sendVars, wsVars, retentionVars, connVars, transferVars>>
nonRetentionVars == <<serverVars, codecVars, agentVars, policyVars, fileVars, shutdownVars, httpVars, apiVars, historyVars, eventsVars, sftpVars, healthVars, sendVars, wsVars, storeVars, connVars, transferVars>>
nonConnVars == <<serverVars, codecVars, agentVars, policyVars, fileVars, shutdownVars, httpVars, apiVars, historyVars, eventsVars, sftpVars, healthVars, sendVars, wsVars, storeVars, retentionVars, transferVars>>
nonTransferVars == <<serverVars, codecVars, agentVars, policyVars, fileVars, shutdownVars, httpVars, apiVars, historyVars, eventsVars, sftpVars, healthVars, sendVars, wsVars, storeVars, retentionVars, connVars>>
nonFileTransferVars == <<serverVars, codecVars, agentVars, policyVars, shutdownVars, httpVars, apiVars, historyVars, eventsVars, sftpVars, healthVars, sendVars, wsVars, storeVars, retentionVars, connVars>>

NoIdentity == [uuid |-> "none"]
NoEntry == [client_id |-> NoClientId, port |-> 0]

\* ---------------------------------------------------------------- Registry
\* The Connection records whose identity_uuid is u.
ConnectionsOf(conns, u) == {c \in conns : c.identity_uuid = u}

\* describe_client(uuid): None for an unknown identity, else identity merged
\* with the current connection and the online flag.
describe_client(ids, conns, u) ==
    IF u \notin Uuids \/ ids[u] = NoIdentity
    THEN [found |-> FALSE, online |-> FALSE, tunnel_port |-> 0]
    ELSE IF ConnectionsOf(conns, u) = {}
         THEN [found |-> TRUE, online |-> FALSE, tunnel_port |-> 0]
         ELSE [found |-> TRUE, online |-> TRUE,
               tunnel_port |-> (CHOOSE c \in ConnectionsOf(conns, u) : TRUE).tunnel_port]

\* A register that stores the presented key over the stored one.
RegisterIdentity_overwrite(ids, u, fp) ==
    IF ids[u] = NoIdentity
    THEN [ids EXCEPT ![u] = [uuid |-> u, public_key_fingerprint |-> fp,
                             key_mismatch |-> FALSE,
                             previous_fingerprint |-> NoFingerprint,
                             created_by |-> "auto"]]
    ELSE IF ids[u].public_key_fingerprint # fp
         THEN [ids EXCEPT ![u].key_mismatch = TRUE,
                          ![u].previous_fingerprint = ids[u].public_key_fingerprint,
                          ![u].public_key_fingerprint = fp]
         ELSE ids

\* register, identity part: a new uuid is created (created_by auto); an
\* existing uuid keeps its stored fingerprint, and a different presented key is
\* flagged (key_mismatch, previous_fingerprint).
RegisterIdentity(ids, u, fp) ==
    IF ids[u] = NoIdentity
    THEN [ids EXCEPT ![u] = [uuid |-> u, public_key_fingerprint |-> fp,
                             key_mismatch |-> FALSE,
                             previous_fingerprint |-> NoFingerprint,
                             created_by |-> "auto"]]
    ELSE IF ids[u].public_key_fingerprint # fp
         THEN [ids EXCEPT ![u].key_mismatch = TRUE,
                          ![u].previous_fingerprint = fp]
         ELSE ids

\* A register that adds the new Connection beside the old one.
InstallConnection_keep_old(conns, u, cid, port) ==
    conns \cup {[client_id |-> cid, tunnel_port |-> port, identity_uuid |-> u]}

\* register, connection part: the new Connection replaces any prior one of
\* the same uuid.
InstallConnection(conns, u, cid, port) ==
    (conns \ ConnectionsOf(conns, u))
        \cup {[client_id |-> cid, tunnel_port |-> port, identity_uuid |-> u]}

\* The listener's notice that the tunnel of u is gone.
unregister(conns, u) == conns \ ConnectionsOf(conns, u)

\* --------------------------------------------------------- Connection Pool
\* clear_stale(client_id): unconditionally evict what is cached for client_id.
clear_stale_connection(p, cid) ==
    [u \in Uuids |-> IF p[u] # NoEntry /\ p[u].client_id = cid THEN NoEntry ELSE p[u]]

\* get(uuid): the cached client when its port is the Registry's current
\* tunnel port, else a new client to the current port replaces it.
get_connection(p, conns, u) ==
    LET c == CHOOSE c \in ConnectionsOf(conns, u) : TRUE
    IN  IF p[u] # NoEntry /\ p[u].port = c.tunnel_port
        THEN p
        ELSE [p EXCEPT ![u] = [client_id |-> c.client_id, port |-> c.tunnel_port]]

\* ---------------------------------------------------------- Health Monitor
\* reset_health(uuid, client_id): zero the counters and re-arm the grace period.
reset_health(h, u) == [h EXCEPT ![u] = [consecutive_failures |-> 0, grace |-> TRUE]]

\* ------------------------------------------------------- internal_register
\* "if client_id: clear_stale_connection(client_id)": the id evicted is the
\* client_id of the registration being handled.
RegisterEvict(p, cid) ==
    IF cid # NoClientId THEN clear_stale_connection(p, cid) ELSE p

\* "if _health_monitor and uuid != 'unknown': reset_health(uuid, client_id)".
RegisterResetHealth(h, u) ==
    IF u # UnknownUuid THEN reset_health(h, u) ELSE h

\* The handler up to its await of registry.register: the payload is read, the
\* pool entry is evicted and the health state reset.
InternalRegisterBegin(u, cid, port, fp) ==
    /\ nRegs < MaxRegistrations
    /\ nRegs' = nRegs + 1
    /\ pool' = RegisterEvict(pool, cid)
    /\ health' = RegisterResetHealth(health, u)
    /\ regTasks' = regTasks \cup
           {[pc |-> "register", uuid |-> u, client_id |-> cid,
             tunnel_port |-> port, fingerprint |-> fp]}
    /\ UNCHANGED <<identities, connections, opTasks, lastStatus, superseded, nReqs>>
    /\ UNCHANGED nonServerVars

\* The ports that were the Registry's tunnel port of the request's client at
\* some moment since the request was issued (history, kept per request).
NoteNewPort(ops, u, port) ==
    {IF o.uuid = u THEN [o EXCEPT !.okPorts = @ \cup {port}] ELSE o : o \in ops}

\* registry.register under the Registry lock: the new Connection is published.
InternalRegisterPublish(t) ==
    /\ t \in regTasks /\ t.pc = "register"
    /\ identities' = RegisterIdentity(identities, t.uuid, t.fingerprint)
    /\ connections' = InstallConnection(connections, t.uuid, t.client_id, t.tunnel_port)
    /\ opTasks' = NoteNewPort(opTasks, t.uuid, t.tunnel_port)
    /\ superseded' = [superseded EXCEPT ![t.uuid] =
           (@ \cup {c.tunnel_port : c \in ConnectionsOf(connections, t.uuid)})
               \ {t.tunnel_port}]
    /\ regTasks' = (regTasks \ {t}) \cup {[t EXCEPT !.pc = "respond"]}
    /\ UNCHANGED <<pool, health, lastStatus, nRegs, nReqs>>
    /\ UNCHANGED nonServerVars

\* The client.connected event is broadcast and the handler answers.
InternalRegisterRespond(t) ==
    /\ t \in regTasks /\ t.pc = "respond"
    /\ regTasks' = regTasks \ {t}
    /\ lastStatus' = 200
    /\ UNCHANGED <<identities, connections, pool, health, opTasks, superseded, nRegs, nReqs>>
    /\ UNCHANGED nonServerVars

\* ----------------------------------------------------------- SSH listener
\* The agent's control connection is lost: the Registry drops the Connection.
Disconnect(u) ==
    /\ ConnectionsOf(connections, u) # {}
    /\ connections' = unregister(connections, u)
    /\ UNCHANGED <<identities, pool, health, regTasks, opTasks, lastStatus,
                   superseded, nRegs, nReqs>>
    /\ UNCHANGED nonServerVars

\* ---------------------------------------------------------- Health Monitor
\* The grace deadline of u passes.
GraceExpire(u) ==
    /\ health[u].grace
    /\ health' = [health EXCEPT ![u].grace = FALSE]
    /\ UNCHANGED <<identities, connections, pool, regTasks, opTasks, lastStatus,
                   superseded, nRegs, nReqs>>
    /\ UNCHANGED nonServerVars

\* --------------------------------------------------------- api_run_command
\* The client whose connection the run endpoint asks the pool for.
RunTarget_active_client(u, conns) ==
    IF conns = {} THEN u ELSE (CHOOSE c \in conns : TRUE).identity_uuid

\* "conn = await get_connection(uuid)": the uuid of the request path.
RunTarget(u, conns) == u

\* The handler up to its await of get_connection: body checks, then the
\* exists and online checks against describe_client.
ApiRunCommandBegin(u, bodyOk) ==
    /\ nReqs < MaxRequests
    /\ nReqs' = nReqs + 1
    /\ LET info == describe_client(identities, connections, u)
       IN  IF ~bodyOk
           THEN lastStatus' = 400 /\ opTasks' = opTasks
           ELSE IF ~info.found
           THEN lastStatus' = 404 /\ opTasks' = opTasks
           ELSE IF ~info.online
           THEN lastStatus' = 503 /\ opTasks' = opTasks
           ELSE /\ opTasks' = opTasks \cup
                       {[pc |-> "get", uuid |-> u, port |-> 0,
                         okPorts |-> {info.tunnel_port}]}
                /\ lastStatus' = lastStatus
    /\ UNCHANGED <<identities, connections, pool, health, regTasks, superseded, nRegs>>
    /\ UNCHANGED nonServerVars

\* get_connection(uuid) and the send of run_command on the client it returns;
\* get_connection raises when the client has no Connection any more.
ApiRunCommandSend(t) ==
    /\ t \in opTasks /\ t.pc = "get"
    /\ LET target == RunTarget(t.uuid, connections)
       IN  IF ConnectionsOf(connections, target) = {}
           THEN /\ opTasks' = opTasks \ {t}
                /\ lastStatus' = 500
                /\ pool' = pool
           ELSE /\ pool' = get_connection(pool, connections, target)
                /\ opTasks' = (opTasks \ {t}) \cup
                       {[t EXCEPT !.pc = "sent", !.port = pool'[target].port]}
                /\ lastStatus' = lastStatus
    /\ UNCHANGED <<identities, connections, health, regTasks, superseded, nRegs, nReqs>>
    /\ UNCHANGED nonServerVars

\* The RPC completes (the record is written, 200) or fails in transport (the
\* failed record is written, 500).
ApiRunCommandRespond(t, ok) ==
    /\ t \in opTasks /\ t.pc = "sent"
    /\ opTasks' = opTasks \ {t}
    /\ lastStatus' = IF ok THEN 200 ELSE 500
    /\ UNCHANGED <<identities, connections, pool, health, regTasks, superseded, nRegs, nReqs>>
    /\ UNCHANGED nonServerVars

\* =================================================================== codec
\* Longest message, in characters, and most messages written to one stream.
MaxMsgLen == 2
MaxMessages == 2

\* Code points of the messages: "h" (1 byte in UTF-8, the first character of
\* the encode test) and U+3053 (3 bytes, the first character of the unicode
\* test).
Chars == {104, 12371}

RECURSIVE SeqsUpTo(_, _)
SeqsUpTo(S, n) ==
    IF n = 0 THEN {<<>>}
    ELSE SeqsUpTo(S, n - 1) \cup
         {Append(q, c) : q \in {x \in SeqsUpTo(S, n - 1) : Len(x) = n - 1}, c \in S}

Messages == SeqsUpTo(Chars, MaxMsgLen)

\* str.encode("utf-8") of one code point.
Utf8Char(c) ==
    IF c < 128 THEN <<c>>
    ELSE IF c < 2048 THEN <<192 + (c \div 64), 128 + (c % 64)>>
    ELSE IF c < 65536
         THEN <<224 + (c \div 4096), 128 + ((c \div 64) % 64), 128 + (c % 64)>>
         ELSE <<240 + (c \div 262144), 128 + ((c \div 4096) % 64),
                128 + ((c \div 64) % 64), 128 + (c % 64)>>

RECURSIVE Utf8Encode(_)
Utf8Encode(m) ==
    IF m = <<>> THEN <<>> ELSE Utf8Char(Head(m)) \o Utf8Encode(Tail(m))

\* bytes.decode("utf-8"): the code points, or ok = FALSE (UnicodeDecodeError)
\* on a stray continuation byte or a sequence cut short.
RECURSIVE Utf8Decode(_)
Utf8Decode(b) ==
    IF b = <<>> THEN [ok |-> TRUE, chars |-> <<>>]
    ELSE LET b1 == b[1]
             n == IF b1 < 128 THEN 1
                  ELSE IF b1 >= 192 /\ b1 < 224 THEN 2
                  ELSE IF b1 >= 224 /\ b1 < 240 THEN 3
                  ELSE IF b1 >= 240 /\ b1 < 248 THEN 4
                  ELSE 0
         IN  IF n = 0 \/ Len(b) < n
                \/ \E i \in 2..n : b[i] < 128 \/ b[i] >= 192
             THEN [ok |-> FALSE, chars |-> <<>>]
             ELSE LET c == IF n = 1 THEN b1
                           ELSE IF n = 2 THEN (b1 - 192) * 64 + (b[2] - 128)
                           ELSE IF n = 3
                                THEN (b1 - 224) * 4096 + (b[2] - 128) * 64 + (b[3] - 128)
                                ELSE (b1 - 240) * 262144 + (b[2] - 128) * 4096
                                     + (b[3] - 128) * 64 + (b[4] - 128)
                      rest == Utf8Decode(SubSeq(b, n + 1, Len(b)))
                 IN  [ok |-> rest.ok, chars |-> IF rest.ok THEN <<c>> \o rest.chars ELSE <<>>]

\* The 4-byte big-endian length prefix and its value.
BE32(n) == <<(n \div 16777216) % 256, (n \div 65536) % 256, (n \div 256) % 256, n % 256>>
FromBE32(b) == b[1] * 16777216 + b[2] * 65536 + b[3] * 256 + b[4]

\* An encode_message whose prefix counts characters, not bytes.
encode_message_char_count(m) == BE32(Len(m)) \o Utf8Encode(m)

\* encode_message(msg): the byte length of the UTF-8 body, then the body.
encode_message(m) == BE32(Len(Utf8Encode(m))) \o Utf8Encode(m)

DecodeFailure(kind) == [status |-> kind, msg |-> <<>>, remaining |-> <<>>]

\* A decode_message that cuts the remainder after as many bytes as the
\* message has characters.
decode_message_char_remainder(data) ==
    IF Len(data) < 4 THEN DecodeFailure("IncompleteHeader")
    ELSE LET length == FromBE32(SubSeq(data, 1, 4))
         IN  IF Len(data) < 4 + length THEN DecodeFailure("IncompleteBody")
             ELSE LET body == Utf8Decode(SubSeq(data, 5, 4 + length))
                  IN  IF ~body.ok THEN DecodeFailure("UnicodeDecodeError")
                      ELSE [status |-> "ok", msg |-> body.chars,
                            remaining |-> SubSeq(data, 5 + Len(body.chars), Len(data))]

\* A decode_message without the body-length check.
decode_message_no_body_check(data) ==
    IF Len(data) < 4 THEN DecodeFailure("IncompleteHeader")
    ELSE LET length == FromBE32(SubSeq(data, 1, 4))
             have == IF Len(data) < 4 + length THEN Len(data) ELSE 4 + length
             body == Utf8Decode(SubSeq(data, 5, have))
         IN  IF ~body.ok THEN DecodeFailure("UnicodeDecodeError")
             ELSE [status |-> "ok", msg |-> body.chars,
                   remaining |-> SubSeq(data, have + 1, Len(data))]

\* decode_message(data): (message, remaining bytes), or the failure raised.
decode_message(data) ==
    IF Len(data) < 4 THEN DecodeFailure("IncompleteHeader")
    ELSE LET length == FromBE32(SubSeq(data, 1, 4))
         IN  IF Len(data) < 4 + length THEN DecodeFailure("IncompleteBody")
             ELSE LET body == Utf8Decode(SubSeq(data, 5, 4 + length))
                  IN  IF ~body.ok THEN DecodeFailure("UnicodeDecodeError")
                      ELSE [status |-> "ok", msg |-> body.chars,
                            remaining |-> SubSeq(data, 5 + length, Len(data))]

\* ------------------------------------------------------- Request as JSON
\* None is the empty sequence and a value v is <<v>>.
None == <<>>
Some(v) == <<v>>

\* Request.to_json: the JSON object with the members method, params and id
\* (null for None).
Request_to_json(r) ==
    [method |-> [t |-> "string", v |-> r.method],
     params |-> [t |-> "object", v |-> r.params],
     id     |-> IF r.id = None THEN [t |-> "null", v |-> ""]
                ELSE [t |-> "string", v |-> r.id[1]]]

\* Request.from_json: params defaults to {} and id to None.
Request_from_json(d) ==
    [method |-> d.method.v,
     params |-> IF "params" \in DOMAIN d THEN d.params.v ELSE <<>>,
     id     |-> IF "id" \in DOMAIN d /\ d.id.t # "null" THEN Some(d.id.v) ELSE None]

\* The requests of the round-trip tests: with and without params and id.
CodecRequests ==
    {[method |-> m, params |-> p, id |-> i] :
        m \in {"write_file", "heartbeat"},
        p \in {<<>>, [path |-> "/a", content |-> "b"]},
        i \in {None, Some("42")}}

\* ----------------------------------------------------------- codec steps
RECURSIVE EncodeAll(_)
EncodeAll(ms) ==
    IF ms = <<>> THEN <<>> ELSE encode_message(Head(ms)) \o EncodeAll(Tail(ms))

InitCodec ==
    /\ sentMsgs = <<>>
    /\ stream = <<>>
    /\ recvMsgs = <<>>
    /\ codecLast = [kind |-> "none", arg |-> <<>>, input |-> <<>>,
                    result |-> DecodeFailure("none")]

\* A writer appends encode_message(m) to the stream.
CodecEncode(m) ==
    /\ Len(sentMsgs) < MaxMessages
    /\ sentMsgs' = Append(sentMsgs, m)
    /\ stream' = stream \o encode_message(m)
    /\ codecLast' = [kind |-> "encode", arg |-> m, input |-> <<>>,
                     result |-> DecodeFailure("none")]
    /\ UNCHANGED recvMsgs
    /\ UNCHANGED nonCodecVars

\* The reader calls decode_message on what the stream holds and keeps the
\* remainder for its next call.
CodecDecode ==
    /\ stream # <<>>
    /\ LET r == decode_message(stream)
       IN  /\ codecLast' = [kind |-> "decode", arg |-> <<>>, input |-> stream, result |-> r]
           /\ IF r.status = "ok"
              THEN recvMsgs' = Append(recvMsgs, r.msg) /\ stream' = r.remaining
              ELSE UNCHANGED <<recvMsgs, stream>>
    /\ UNCHANGED sentMsgs
    /\ UNCHANGED nonCodecVars

\* decode_message(encode_message(m)) on its own.
CodecRoundTrip(m) ==
    /\ sentMsgs = <<>>
    /\ codecLast' = [kind |-> "roundtrip", arg |-> m, input |-> encode_message(m),
                     result |-> decode_message(encode_message(m))]
    /\ UNCHANGED <<sentMsgs, stream, recvMsgs>>
    /\ UNCHANGED nonCodecVars

\* decode_message on the first k bytes of encode_message(m), k short of all.
CodecDecodePrefix(m, k) ==
    /\ sentMsgs = <<>>
    /\ k < Len(encode_message(m))
    /\ LET p == SubSeq(encode_message(m), 1, k)
       IN  codecLast' = [kind |-> "prefix", arg |-> m, input |-> p,
                         result |-> decode_message(p)]
    /\ UNCHANGED <<sentMsgs, stream, recvMsgs>>
    /\ UNCHANGED nonCodecVars

\* Request.from_json(Request.to_json(r)).
RequestRoundTrip(r) ==
    /\ sentMsgs = <<>>
    /\ codecLast' = [kind |-> "request", arg |-> r, input |-> Request_to_json(r),
                     result |-> Request_from_json(Request_to_json(r))]
    /\ UNCHANGED <<sentMsgs, stream, recvMsgs>>
    /\ UNCHANGED nonCodecVars

\* =================================================================== agent
\* Requests one agent handles in one behaviour.
MaxAgentRequests == 3

\* ------------------------------------------------------------ error codes
ERR_METHOD_NOT_FOUND == -32601
ERR_INVALID_PARAMS == -32602
ERR_COMMAND_FAILED == -32000
ERR_PATH_DENIED == -32001
ERR_FILE_NOT_FOUND == -32002

\* ---------------------------------------------------------------- methods
METHOD_RUN_COMMAND == "run_command"
METHOD_READ_FILE == "read_file"
METHOD_WRITE_FILE == "write_file"
METHOD_LIST_FILES == "list_files"
METHOD_HEARTBEAT == "heartbeat"
METHOD_GET_METRICS == "get_metrics"
METHOD_SSH_SESSION_OPEN == "ssh_session_open"
METHOD_SSH_SESSION_COMMAND == "ssh_session_command"
METHOD_SSH_SESSION_CLOSE == "ssh_session_close"
METHOD_SSH_SESSION_LIST == "ssh_session_list"
METHOD_REGISTER == "register"

\* --------------------------------------------------------------- Response
\* Response.success(result, id) and Response.error_response(code, message, id).
Response_success(result, id) == [id |-> id, result |-> Some(result), error |-> None]
Response_error_response(code, message, id) ==
    [id |-> id, result |-> None, error |-> Some([code |-> code, message |-> message])]

\* Response.to_json: the members of the JSON object written.
Response_to_json(resp) ==
    IF resp.error # None
    THEN [id |-> resp.id, error |-> resp.error[1]]
    ELSE [id |-> resp.id, result |-> resp.result]

\* ------------------------------------------------------------- exceptions
\* The classes of an exception class, itself first (Python's built-in
\* hierarchy, as the except clauses match it).
Bases(cls) ==
    CASE cls = "PermissionError"   -> {"PermissionError", "OSError", "Exception"}
      [] cls = "FileNotFoundError" -> {"FileNotFoundError", "OSError", "Exception"}
      [] cls = "ConnectionError"   -> {"ConnectionError", "OSError", "Exception"}
      [] cls = "OSError"           -> {"OSError", "Exception"}
      [] cls = "KeyError"          -> {"KeyError", "LookupError", "Exception"}
      [] cls = "LookupError"       -> {"LookupError", "Exception"}
      [] cls = "ValueError"        -> {"ValueError", "Exception"}
      [] OTHER                     -> {cls, "Exception"}

Return(result, sess) == [kind |-> "return", result |-> result, sessions |-> sess]
Raise(cls, msg, sess) == [kind |-> "raise", cls |-> cls, msg |-> msg, sessions |-> sess]

\* What the environment makes a handler do: run normally, or fail inside the
\* library call the handler makes (the exception class it raises).
EnvOutcomes ==
    {"ok", "TimeoutExpired", "PermissionError", "FileNotFoundError", "ValueError",
     "ConnectionError", "OSError", "LookupError"}

\* The failures each handler can meet once its parameters are read:
\* _validate_path and the OS (PermissionError), a missing path or cwd or key
\* file (FileNotFoundError), "Not a file", "File too large", a bad Base64 or an
\* authentication failure (ValueError), an SSH failure (ConnectionError),
\* other OS errors, an unknown encoding (LookupError).
HandlerFailures(method) ==
    CASE method = METHOD_RUN_COMMAND ->
            {"PermissionError", "FileNotFoundError", "OSError", "ValueError"}
      [] method = METHOD_READ_FILE ->
            {"PermissionError", "FileNotFoundError", "ValueError", "OSError", "LookupError"}
      [] method = METHOD_WRITE_FILE ->
            {"PermissionError", "FileNotFoundError", "ValueError", "OSError", "LookupError"}
      [] method = METHOD_LIST_FILES ->
            {"PermissionError", "FileNotFoundError", "ValueError", "OSError"}
      [] method = METHOD_GET_METRICS -> {"PermissionError", "OSError"}
      [] method = METHOD_SSH_SESSION_OPEN ->
            {"FileNotFoundError", "ValueError", "ConnectionError", "OSError"}
      [] OTHER -> {}

\* The first of the keys that params lacks, or "" when it has them all: the
\* params[key] lookups of a handler, in the handler's order.
MissingKey(params, keys) ==
    IF \A i \in 1..Len(keys) : keys[i] \in DOMAIN params THEN ""
    ELSE keys[CHOOSE i \in 1..Len(keys) :
                  /\ keys[i] \notin DOMAIN params
                  /\ \A j \in 1..(i - 1) : keys[j] \in DOMAIN params]

\* A handler that reads its required parameters and then works on the
\* filesystem, a subprocess or the metrics: _run_command (a timeout is a
\* result with returncode -1), _read_file, _write_file, _list_files,
\* _get_metrics.
PlainHandler(method, params, keys, env, sess) ==
    IF MissingKey(params, keys) # ""
    THEN Raise("KeyError", MissingKey(params, keys), sess)
    ELSE IF env \in HandlerFailures(method) THEN Raise(env, env, sess)
    ELSE IF method = METHOD_RUN_COMMAND /\ env = "TimeoutExpired"
         THEN Return([handler |-> method, returncode |-> -1], sess)
         ELSE Return([handler |-> method, returncode |-> 0], sess)

\* SSHSessionManager.open_session through _ssh_session_open: the three maps
\* get the new session together, after connect and invoke_shell succeeded.
ssh_session_open(params, env, sid, sess) ==
    IF MissingKey(params, <<"host", "username">>) # ""
    THEN Raise("KeyError", MissingKey(params, <<"host", "username">>), sess)
    ELSE IF env \in HandlerFailures(METHOD_SSH_SESSION_OPEN)
    THEN Raise(env,
               CASE env = "ValueError" -> "Authentication failed"
                 [] env = "ConnectionError" -> "SSH connection failed"
                 [] env = "FileNotFoundError" -> "Key file not found"
                 [] OTHER -> env,
               sess)
    ELSE Return([handler |-> METHOD_SSH_SESSION_OPEN, session_id |-> sid],
                [clients |-> sess.clients \cup {sid},
                 shells  |-> sess.shells \cup {sid},
                 info    |-> [i \in DOMAIN sess.info \cup {sid} |->
                                 IF i = sid THEN params.host ELSE sess.info[i]]])

\* SSHSessionManager.send_command through _ssh_session_command.
ssh_session_command(params, sess) ==
    IF MissingKey(params, <<"session_id", "command">>) # ""
    THEN Raise("KeyError", MissingKey(params, <<"session_id", "command">>), sess)
    ELSE IF params.session_id \notin sess.shells
         THEN Raise("KeyError", "Session not found", sess)
         ELSE Return([handler |-> METHOD_SSH_SESSION_COMMAND,
                      session_id |-> params.session_id], sess)

\* A close_session that lets the error of shell.close() or client.close()
\* out, the session still in the maps.
close_session_abort_on_error(sess, session_id, closeFails) ==
    IF session_id \notin sess.shells
    THEN Raise("KeyError", "Session not found", sess)
    ELSE IF session_id \in closeFails
    THEN Raise("OSError", "Socket is closed", sess)
    ELSE Return([handler |-> METHOD_SSH_SESSION_CLOSE, session_id |-> session_id,
                 closed |-> TRUE],
                [clients |-> sess.clients \ {session_id},
                 shells  |-> sess.shells \ {session_id},
                 info    |-> [i \in DOMAIN sess.info \ {session_id} |-> sess.info[i]]])

\* A close_session that leaves the entry of _session_info behind.
close_session_keeps_info(sess, session_id, closeFails) ==
    IF session_id \notin sess.shells
    THEN Raise("KeyError", "Session not found", sess)
    ELSE Return([handler |-> METHOD_SSH_SESSION_CLOSE, session_id |-> session_id,
                 closed |-> TRUE],
                [clients |-> sess.clients \ {session_id},
                 shells  |-> sess.shells \ {session_id},
                 info    |-> sess.info])

\* SSHSessionManager.close_session: an unknown id is a KeyError; the errors
\* of shell.close() and client.close() (for the ids in closeFails) are
\* logged, and the id leaves the three maps either way.
close_session(sess, session_id, closeFails) ==
    IF session_id \notin sess.shells
    THEN Raise("KeyError", "Session not found", sess)
    ELSE Return([handler |-> METHOD_SSH_SESSION_CLOSE, session_id |-> session_id,
                 closed |-> TRUE],
                [clients |-> sess.clients \ {session_id},
                 shells  |-> sess.shells \ {session_id},
                 info    |-> [i \in DOMAIN sess.info \ {session_id} |-> sess.info[i]]])

\* An _ssh_session_close that answers closed for an id it does not know.
ssh_session_close_idempotent(params, sess) ==
    IF MissingKey(params, <<"session_id">>) # ""
    THEN Raise("KeyError", "session_id", sess)
    ELSE IF params.session_id \notin sess.shells
    THEN Return([handler |-> METHOD_SSH_SESSION_CLOSE,
                 session_id |-> params.session_id, closed |-> TRUE], sess)
    ELSE close_session(sess, params.session_id, {})

\* Agent._ssh_session_close.
ssh_session_close(params, sess) ==
    IF MissingKey(params, <<"session_id">>) # ""
    THEN Raise("KeyError", "session_id", sess)
    ELSE close_session(sess, params.session_id, {})

\* SSHSessionManager.list_sessions: one entry for every key of
\* _session_info, and their number.
list_sessions(sess) == [handler |-> METHOD_SSH_SESSION_LIST,
                        sessions |-> DOMAIN sess.info,
                        count |-> Cardinality(DOMAIN sess.info)]

\* SSHSessionManager.close_all: close_session for every id of _shells, an
\* exception of one logged and the loop going on.
RECURSIVE CloseEach(_, _, _)
CloseEach(ids, sess, closeFails) ==
    IF ids = {} THEN sess
    ELSE LET id == CHOOSE i \in ids : TRUE
         IN  CloseEach(ids \ {id}, close_session(sess, id, closeFails).sessions, closeFails)

close_all(sess, closeFails) == CloseEach(sess.shells, sess, closeFails)

\* The if/elif chain of handle_request: the handler the method selects, run;
\* "unknown" for the else branch.
Dispatch(req, env, sid, sess) ==
    CASE req.method = METHOD_RUN_COMMAND ->
            PlainHandler(req.method, req.params, <<"cmd">>, env, sess)
      [] req.method = METHOD_READ_FILE ->
            PlainHandler(req.method, req.params, <<"path">>, env, sess)
      [] req.method = METHOD_WRITE_FILE ->
            PlainHandler(req.method, req.params, <<"path", "content">>, env, sess)
      [] req.method = METHOD_LIST_FILES ->
            PlainHandler(req.method, req.params, <<"path">>, env, sess)
      [] req.method = METHOD_HEARTBEAT ->
            Return([handler |-> METHOD_HEARTBEAT, status |-> "alive"], sess)
      [] req.method = METHOD_GET_METRICS ->
            PlainHandler(req.method, req.params, <<>>, env, sess)
      [] req.method = METHOD_SSH_SESSION_OPEN ->
            ssh_session_open(req.params, env, sid, sess)
      [] req.method = METHOD_SSH_SESSION_COMMAND ->
            ssh_session_command(req.params, sess)
      [] req.method = METHOD_SSH_SESSION_CLOSE ->
            ssh_session_close(req.params, sess)
      [] req.method = METHOD_SSH_SESSION_LIST ->
            Return(list_sessions(sess), sess)
      [] OTHER -> [kind |-> "unknown", sessions |-> sess]

\* A dispatcher without the else branch: result is unbound at the return,
\* and the UnboundLocalError is answered as a failed command.
UnknownMethodResponse_unbound_result(req) ==
    Response_error_response(ERR_COMMAND_FAILED, "UnboundLocalError", req.id)

\* The else branch: the method-not-found response.
UnknownMethodResponse(req) ==
    Response_error_response(ERR_METHOD_NOT_FOUND, <<"Unknown method: ", req.method>>, req.id)

\* An except chain without the last clause.
ExceptClause_no_catch_all(cls) ==
    IF "PermissionError" \in Bases(cls) THEN "PermissionError"
    ELSE IF "FileNotFoundError" \in Bases(cls) THEN "FileNotFoundError"
    ELSE IF "KeyError" \in Bases(cls) THEN "KeyError"
    ELSE "uncaught"

\* The except clauses in source order: the first one the exception is an
\* instance of.
ExceptClause(cls) ==
    IF "PermissionError" \in Bases(cls) THEN "PermissionError"
    ELSE IF "FileNotFoundError" \in Bases(cls) THEN "FileNotFoundError"
    ELSE IF "KeyError" \in Bases(cls) THEN "KeyError"
    ELSE IF "Exception" \in Bases(cls) THEN "Exception"
    ELSE "uncaught"

\* Error responses that leave the request id out.
HandlerErrorResponse_no_id(clause, msg, req) ==
    CASE clause = "PermissionError" ->
            Response_error_response(ERR_PATH_DENIED, msg, None)
      [] clause = "FileNotFoundError" ->
            Response_error_response(ERR_FILE_NOT_FOUND, msg, None)
      [] clause = "KeyError" ->
            Response_error_response(ERR_INVALID_PARAMS,
                                    <<"Missing required parameter: ", msg>>, None)
      [] OTHER -> Response_error_response(ERR_COMMAND_FAILED, msg, None)

\* The response each except clause builds.
HandlerErrorResponse(clause, msg, req) ==
    CASE clause = "PermissionError" ->
            Response_error_response(ERR_PATH_DENIED, msg, req.id)
      [] clause = "FileNotFoundError" ->
            Response_error_response(ERR_FILE_NOT_FOUND, msg, req.id)
      [] clause = "KeyError" ->
            Response_error_response(ERR_INVALID_PARAMS,
                                    <<"Missing required parameter: ", msg>>, req.id)
      [] OTHER -> Response_error_response(ERR_COMMAND_FAILED, msg, req.id)

\* Agent.handle_request: what the call gives (a response, or an exception
\* that leaves the method), the handler that ran, and the sessions after it.
handle_request(req, env, sid, sess) ==
    LET out == Dispatch(req, env, sid, sess)
    IN  IF out.kind = "unknown"
        THEN [response |-> Some(UnknownMethodResponse(req)), propagated |-> "none",
              handler |-> "none", raised |-> "none", msg |-> "", sessions |-> out.sessions]
        ELSE IF out.kind = "return"
        THEN [response |-> Some(Response_success(out.result, req.id)),
              propagated |-> "none", handler |-> req.method, raised |-> "none",
              msg |-> "", sessions |-> out.sessions]
        ELSE IF ExceptClause(out.cls) = "uncaught"
        THEN [response |-> None, propagated |-> out.cls, handler |-> req.method,
              raised |-> out.cls, msg |-> out.msg, sessions |-> out.sessions]
        ELSE [response |-> Some(HandlerErrorResponse(ExceptClause(out.cls), out.msg, req)),
              propagated |-> "none", handler |-> req.method, raised |-> out.cls,
              msg |-> out.msg, sessions |-> out.sessions]

\* ------------------------------------------------------------ agent steps
SessionIds == {"5f3a9c01", "0b7e44d2"}

\* The params a request of each method may carry.
ParamsFor(method) ==
    CASE method = METHOD_RUN_COMMAND -> {<<>>, [cmd |-> "ls"], [cmd |-> "ls", cwd |-> "/srv"]}
      [] method \in {METHOD_READ_FILE, METHOD_LIST_FILES} -> {<<>>, [path |-> "/a"]}
      [] method = METHOD_WRITE_FILE ->
            {<<>>, [path |-> "/a"], [path |-> "/a", content |-> "b"]}
      [] method = METHOD_SSH_SESSION_OPEN ->
            {<<>>, [host |-> "h"], [host |-> "h", username |-> "u"]}
      [] method = METHOD_SSH_SESSION_COMMAND ->
            {<<>>} \cup {[session_id |-> i, command |-> "id"] : i \in SessionIds}
      [] method = METHOD_SSH_SESSION_CLOSE ->
            {<<>>} \cup {[session_id |-> i] : i \in SessionIds}
      [] OTHER -> {<<>>, [cmd |-> "ls"]}

\* The method names a request may carry: the ten the agent handles, register
\* (of the protocol, not handled by the agent) and a name of no method.
AgentMethods ==
    {METHOD_RUN_COMMAND, METHOD_READ_FILE, METHOD_WRITE_FILE, METHOD_LIST_FILES,
     METHOD_HEARTBEAT, METHOD_GET_METRICS, METHOD_SSH_SESSION_OPEN,
     METHOD_SSH_SESSION_COMMAND, METHOD_SSH_SESSION_CLOSE, METHOD_SSH_SESSION_LIST,
     METHOD_REGISTER, "reboot"}

Sessions == [clients |-> ssh_clients, shells |-> ssh_shells, info |-> ssh_session_info]

InitAgent ==
    /\ ssh_clients = {}
    /\ ssh_shells = {}
    /\ ssh_session_info = <<>>
    /\ agentLast = [request |-> [method |-> "", params |-> <<>>, id |-> None],
                    call |-> [response |-> None, propagated |-> "none",
                              handler |-> "none", raised |-> "none", msg |-> "",
                              sessions |-> [clients |-> {}, shells |-> {}, info |-> <<>>]],
                    before |-> [clients |-> {}, shells |-> {}, info |-> <<>>]]
    /\ nServed = 0
    /\ erredBefore = FALSE

\* One request arrives and handle_request answers it.
HandleRequest(req, env, sid) ==
    /\ nServed < MaxAgentRequests
    /\ agentLast.call.propagated = "none"
    /\ LET call == handle_request(req, env, sid, Sessions)
       IN  /\ agentLast' = [request |-> req, call |-> call, before |-> Sessions]
           /\ ssh_clients' = call.sessions.clients
           /\ ssh_shells' = call.sessions.shells
           /\ ssh_session_info' = call.sessions.info
    /\ nServed' = nServed + 1
    /\ erredBefore' = (erredBefore \/ (nServed > 0 /\ agentLast.call.raised # "none"))
    /\ UNCHANGED nonAgentVars

\* --------------------------------------------------------- agent shutdown
NoShutdown == [done |-> FALSE, closeFails |-> {},
               before |-> [clients |-> {}, shells |-> {}, info |-> <<>>]]

InitShutdown == shutdownLast = NoShutdown

\* The agent shuts down: close_all, with the sessions of closeFails raising
\* when their shell or client is closed.
CloseAll(closeFails) ==
    /\ ~shutdownLast.done
    /\ LET after == close_all(Sessions, closeFails)
       IN  /\ ssh_clients' = after.clients
           /\ ssh_shells' = after.shells
           /\ ssh_session_info' = after.info
    /\ shutdownLast' = [done |-> TRUE, closeFails |-> closeFails, before |-> Sessions]
    /\ UNCHANGED <<agentLast, nServed, erredBefore>>
    /\ UNCHANGED <<serverVars, codecVars, policyVars, fileVars, httpVars, apiVars, historyVars, eventsVars, sftpVars, healthVars, sendVars, wsVars, storeVars, retentionVars, connVars, transferVars>>

\* ============================================================= path policy
\* Components of a raw path (longest path tried).
MaxPathLen == 3

\* Path components, as their characters: "a", "ab" (which "a" is a string
\* prefix of), "f", a symlink name "l", and "..".
CompA == <<"a">>
CompAB == <<"a", "b">>
CompF == <<"f">>
CompL == <<"l">>
DotDot == <<".", ".">>
Components == {CompA, CompAB, CompF, CompL, DotDot}

\* The raw absolute paths of the requests: up to MaxPathLen components.
RawPaths == SeqsUpTo(Components, MaxPathLen)

\* The symlinks of the filesystem: resolved location -> resolved target.
\* None; /a/l -> /ab (leaves /a); /ab/l -> /a (enters /a).
LinkSets ==
    {<<>>,
     [p \in {<<CompA, CompL>>} |-> <<CompAB>>],
     [p \in {<<CompAB, CompL>>} |-> <<CompA>>]}

\* The configured allow-lists: null, empty, one entry, two entries.
AllowLists ==
    {None, Some(<<>>), Some(<< <<CompA>> >>), Some(<< <<CompA, CompF>> >>),
     Some(<< <<CompAB, CompL>> >>), Some(<< <<CompF>>, <<CompA, DotDot, CompAB>> >>)}

\* Path(path).resolve(): ".." removes the component before it and a symlink
\* is replaced by its target, left to right.
RECURSIVE ResolveFrom(_, _, _)
ResolveFrom(stack, rest, links) ==
    IF rest = <<>> THEN stack
    ELSE IF Head(rest) = DotDot
         THEN ResolveFrom(IF stack = <<>> THEN <<>> ELSE SubSeq(stack, 1, Len(stack) - 1),
                          Tail(rest), links)
         ELSE IF Append(stack, Head(rest)) \in DOMAIN links
              THEN ResolveFrom(links[Append(stack, Head(rest))], Tail(rest), links)
              ELSE ResolveFrom(Append(stack, Head(rest)), Tail(rest), links)

Resolve(path, links) == ResolveFrom(<<>>, path, links)

\* str(path): "/" before every component.
RECURSIVE PathStr(_)
PathStr(p) == IF p = <<>> THEN <<>> ELSE <<"/">> \o Head(p) \o PathStr(Tail(p))

\* A comparison of the paths as strings, in place of relative_to.
relative_to_startswith(p, base) ==
    /\ Len(PathStr(base)) <= Len(PathStr(p))
    /\ SubSeq(PathStr(p), 1, Len(PathStr(base))) = PathStr(base)

\* resolved.relative_to(base) succeeds: base's components begin p's.
relative_to(p, base) ==
    /\ Len(base) <= Len(p)
    /\ SubSeq(p, 1, Len(base)) = base

PathOk(resolved) == [kind |-> "ok", resolved |-> resolved]
PathDenied(path) ==
    [kind |-> "PermissionError", msg |-> <<"Path not in allowed list: ", path>>]

\* Agent._validate_path.
Agent_validate_path(allowed_paths, links, path) ==
    IF allowed_paths # None
    THEN IF \E i \in 1..Len(allowed_paths[1]) :
                relative_to(Resolve(path, links), Resolve(allowed_paths[1][i], links))
         THEN PathOk(Resolve(path, links))
         ELSE PathDenied(path)
    ELSE PathOk(Resolve(path, links))

\* A validator that reads an empty allow-list as no restriction.
ClientSFTPInterface_validate_path_empty_open(allowed_paths, links, path) ==
    IF allowed_paths # None /\ allowed_paths[1] # <<>>
    THEN IF \E i \in 1..Len(allowed_paths[1]) :
                relative_to(Resolve(path, links), Resolve(allowed_paths[1][i], links))
         THEN PathOk(Resolve(path, links))
         ELSE PathDenied(path)
    ELSE PathOk(Resolve(path, links))

\* ClientSFTPInterface._validate_path.
ClientSFTPInterface_validate_path(allowed_paths, links, path) ==
    IF allowed_paths # None
    THEN IF \E i \in 1..Len(allowed_paths[1]) :
                relative_to(Resolve(path, links), Resolve(allowed_paths[1][i], links))
         THEN PathOk(Resolve(path, links))
         ELSE PathDenied(path)
    ELSE PathOk(Resolve(path, links))

InitPolicy ==
    pathLast = [who |-> "none", allowed_paths |-> None, links |-> <<>>, path |-> <<>>,
                result |-> PathOk(<<>>)]

\* An agent configured with an allow-list validates a path parameter, on a
\* filesystem with the given symlinks.
AgentValidatePath(allowed, links, path) ==
    /\ pathLast.who = "none"
    /\ pathLast' = [who |-> "agent", allowed_paths |-> allowed, links |-> links,
                    path |-> path, result |-> Agent_validate_path(allowed, links, path)]
    /\ UNCHANGED nonPolicyVars

\* The SFTP subsystem validates a path argument.
SftpValidatePath(allowed, links, path) ==
    /\ pathLast.who = "none"
    /\ pathLast' = [who |-> "sftp", allowed_paths |-> allowed, links |-> links,
                    path |-> path,
                    result |-> ClientSFTPInterface_validate_path(allowed, links, path)]
    /\ UNCHANGED nonPolicyVars

\* ===================================================== file and command handlers
\* Requests one agent handles in one behaviour.
MaxFileOps == 2

\* ----------------------------------------------------------------- Base64
\* A Base64 string is the sequence of its characters' values: 0..63, and
\* B64Pad for "=".
B64Pad == 64

\* base64.b64encode(b).
RECURSIVE b64encode(_)
b64encode(b) ==
    IF b = <<>> THEN <<>>
    ELSE IF Len(b) = 1 THEN <<b[1] \div 4, (b[1] % 4) * 16, B64Pad, B64Pad>>
    ELSE IF Len(b) = 2
         THEN <<b[1] \div 4, (b[1] % 4) * 16 + (b[2] \div 16), (b[2] % 16) * 4, B64Pad>>
         ELSE <<b[1] \div 4, (b[1] % 4) * 16 + (b[2] \div 16),
                (b[2] % 16) * 4 + (b[3] \div 64), b[3] % 64>>
              \o b64encode(SubSeq(b, 4, Len(b)))

\* base64.b64decode(s) accepts s: whole groups of four characters.
b64valid(s) == Len(s) % 4 = 0

\* base64.b64decode(s), s accepted.
RECURSIVE b64decode(_)
b64decode(s) ==
    IF s = <<>> THEN <<>>
    ELSE IF s[3] = B64Pad THEN <<s[1] * 4 + (s[2] \div 16)>>
    ELSE IF s[4] = B64Pad
         THEN <<s[1] * 4 + (s[2] \div 16), (s[2] % 16) * 16 + (s[3] \div 4)>>
         ELSE <<s[1] * 4 + (s[2] \div 16), (s[2] % 16) * 16 + (s[3] \div 4),
                (s[3] % 4) * 64 + s[4]>>
              \o b64decode(SubSeq(s, 5, Len(s)))

\* ------------------------------------------------------------- filesystem
\* The symlinks of the agent's filesystem: /a/l -> /ab.
FileLinks == [p \in {<<CompA, CompL>>} |-> <<CompAB>>]

Dir == [type |-> "dir", data |-> <<>>]
File(data) == [type |-> "file", data |-> data]

\* The bytes of "Hello".
Hello == <<72, 101, 108, 108, 111>>

\* The filesystem the agent starts on: directories /a and /ab, the file
\* /ab/f holding "Hello".
FsInit ==
    [p \in {<<CompA>>, <<CompAB>>, <<CompAB, CompF>>} |->
        IF p = <<CompAB, CompF>> THEN File(Hello) ELSE Dir]

\* The proper ancestors of p, the root left out.
Ancestors(p) == {SubSeq(p, 1, k) : k \in 1..(Len(p) - 1)}

\* path.parent.mkdir(parents=True, exist_ok=True).
MkdirParents(f, p) ==
    [q \in DOMAIN f \cup Ancestors(p) |-> IF q \in DOMAIN f THEN f[q] ELSE Dir]

\* path.write_bytes(data) / path.write_text(content).
WriteData(f, p, data) ==
    [q \in DOMAIN f \cup {p} |-> IF q = p THEN File(data) ELSE f[q]]

\* What a handler gives: its result or the exception it raises, and the
\* filesystem and the count of started subprocesses it leaves.
FReturn(result, f, ran) == [kind |-> "return", result |-> result, fs |-> f, ran |-> ran]
FRaise(cls, msg, f, ran) == [kind |-> "raise", cls |-> cls, msg |-> msg, fs |-> f, ran |-> ran]

\* --------------------------------------------------------------- handlers
\* Agent._read_file: the text of the file, or its bytes in Base64 with
\* binary set when they are not UTF-8.
Agent_read_file(params, allowed, f, ran) ==
    IF "path" \notin DOMAIN params THEN FRaise("KeyError", "path", f, ran)
    ELSE LET v == Agent_validate_path(allowed, FileLinks, params.path)
         IN  IF v.kind # "ok" THEN FRaise("PermissionError", v.msg, f, ran)
             ELSE IF v.resolved # <<>> /\ v.resolved \notin DOMAIN f
             THEN FRaise("FileNotFoundError", <<"File not found: ", v.resolved>>, f, ran)
             ELSE IF v.resolved = <<>> \/ f[v.resolved].type # "file"
             THEN FRaise("ValueError", <<"Not a file: ", v.resolved>>, f, ran)
             ELSE IF Utf8Decode(f[v.resolved].data).ok
             THEN FReturn([content |-> Utf8Decode(f[v.resolved].data).chars,
                           size |-> Len(f[v.resolved].data), path |-> v.resolved], f, ran)
             ELSE FReturn([content |-> b64encode(f[v.resolved].data),
                           size |-> Len(f[v.resolved].data), path |-> v.resolved,
                           binary |-> TRUE], f, ran)

\* A _write_file that makes the parent directories before it validates.
Agent_write_file_mkdir_first(params, allowed, f, ran) ==
    IF "path" \notin DOMAIN params THEN FRaise("KeyError", "path", f, ran)
    ELSE LET v == Agent_validate_path(allowed, FileLinks, params.path)
         IN  IF v.kind # "ok"
             THEN FRaise("PermissionError", v.msg,
                         MkdirParents(f, Resolve(params.path, FileLinks)), ran)
             ELSE IF "content" \notin DOMAIN params THEN FRaise("KeyError", "content", f, ran)
             ELSE IF \E q \in Ancestors(v.resolved) : q \in DOMAIN f /\ f[q].type = "file"
             THEN FRaise("OSError", "NotADirectoryError", f, ran)
             ELSE LET made == MkdirParents(f, v.resolved)
                      binary == "binary" \in DOMAIN params /\ params.binary
                  IN  IF binary /\ ~b64valid(params.content)
                      THEN FRaise("ValueError", "Incorrect padding", made, ran)
                      ELSE IF v.resolved = <<>>
                              \/ (v.resolved \in DOMAIN made /\ made[v.resolved].type = "dir")
                      THEN FRaise("OSError", "IsADirectoryError", made, ran)
                      ELSE LET data == IF binary THEN b64decode(params.content)
                                       ELSE Utf8Encode(params.content)
                           IN  FReturn([path |-> v.resolved, size |-> Len(data)],
                                       WriteData(made, v.resolved, data), ran)

\* Agent._write_file: validate, read content, make the parents, write.
\* mkdir fails on an ancestor that is a file, the write on a directory.
Agent_write_file(params, allowed, f, ran) ==
    IF "path" \notin DOMAIN params THEN FRaise("KeyError", "path", f, ran)
    ELSE LET v == Agent_validate_path(allowed, FileLinks, params.path)
         IN  IF v.kind # "ok" THEN FRaise("PermissionError", v.msg, f, ran)
             ELSE IF "content" \notin DOMAIN params THEN FRaise("KeyError", "content", f, ran)
             ELSE IF \E q \in Ancestors(v.resolved) : q \in DOMAIN f /\ f[q].type = "file"
             THEN FRaise("OSError", "NotADirectoryError", f, ran)
             ELSE LET made == MkdirParents(f, v.resolved)
                      binary == "binary" \in DOMAIN params /\ params.binary
                  IN  IF binary /\ ~b64valid(params.content)
                      THEN FRaise("ValueError", "Incorrect padding", made, ran)
                      ELSE IF v.resolved = <<>>
                              \/ (v.resolved \in DOMAIN made /\ made[v.resolved].type = "dir")
                      THEN FRaise("OSError", "IsADirectoryError", made, ran)
                      ELSE LET data == IF binary THEN b64decode(params.content)
                                       ELSE Utf8Encode(params.content)
                           IN  FReturn([path |-> v.resolved, size |-> Len(data)],
                                       WriteData(made, v.resolved, data), ran)

\* Agent._list_files.
Agent_list_files(params, allowed, f, ran) ==
    IF "path" \notin DOMAIN params THEN FRaise("KeyError", "path", f, ran)
    ELSE LET v == Agent_validate_path(allowed, FileLinks, params.path)
         IN  IF v.kind # "ok" THEN FRaise("PermissionError", v.msg, f, ran)
             ELSE IF v.resolved # <<>> /\ v.resolved \notin DOMAIN f
             THEN FRaise("FileNotFoundError", <<"Directory not found: ", v.resolved>>, f, ran)
             ELSE IF v.resolved # <<>> /\ f[v.resolved].type # "dir"
             THEN FRaise("ValueError", <<"Not a directory: ", v.resolved>>, f, ran)
             ELSE FReturn([path |-> v.resolved,
                           entries |-> {[name |-> q[Len(q)], type |-> f[q].type] :
                                          q \in {x \in DOMAIN f :
                                                   /\ Len(x) = Len(v.resolved) + 1
                                                   /\ SubSeq(x, 1, Len(v.resolved)) = v.resolved}}],
                          f, ran)

\* subprocess.run(cmd, shell=True, cwd=cwd, timeout=timeout) as _run_command
\* uses it: it raises when cwd is missing or no directory or the process
\* cannot be started (env "OSError"); a timeout is turned into a result.
SubprocessRun(cwd, timeout, env, f, ran) ==
    IF cwd # None /\ cwd[1] # <<>> /\ cwd[1] \notin DOMAIN f
    THEN FRaise("FileNotFoundError", <<"No such file or directory: ", cwd[1]>>, f, ran)
    ELSE IF cwd # None /\ cwd[1] # <<>> /\ f[cwd[1]].type # "dir"
    THEN FRaise("NotADirectoryError", <<"Not a directory: ", cwd[1]>>, f, ran)
    ELSE IF env = "OSError" THEN FRaise("OSError", "Cannot allocate memory", f, ran)
    ELSE IF env = "TimeoutExpired"
    THEN FReturn([stdout |-> "",
                  stderr |-> <<"Command timed out after ", timeout, " seconds">>,
                  returncode |-> -1], f, ran + 1)
    ELSE FReturn([stdout |-> "out", stderr |-> "", returncode |-> 0], f, ran + 1)

\* Agent._run_command.
Agent_run_command(params, allowed, env, f, ran) ==
    IF "cmd" \notin DOMAIN params THEN FRaise("KeyError", "cmd", f, ran)
    ELSE LET timeout == IF "timeout" \in DOMAIN params THEN params.timeout ELSE 300
         IN  IF "cwd" \in DOMAIN params
             THEN LET v == Agent_validate_path(allowed, FileLinks, params.cwd)
                  IN  IF v.kind # "ok" THEN FRaise("PermissionError", v.msg, f, ran)
                      ELSE SubprocessRun(Some(v.resolved), timeout, env, f, ran)
             ELSE SubprocessRun(None, timeout, env, f, ran)

\* Agent.handle_request for the four methods that take a path, their
\* handlers in full: the if/elif chain, the return and the except clauses.
handle_file_request(req, allowed, env, f, ran) ==
    LET out == CASE req.method = METHOD_RUN_COMMAND ->
                       Agent_run_command(req.params, allowed, env, f, ran)
                 [] req.method = METHOD_READ_FILE ->
                       Agent_read_file(req.params, allowed, f, ran)
                 [] req.method = METHOD_WRITE_FILE ->
                       Agent_write_file(req.params, allowed, f, ran)
                 [] OTHER -> Agent_list_files(req.params, allowed, f, ran)
    IN  [response |-> IF out.kind = "return" THEN Response_success(out.result, req.id)
                      ELSE HandlerErrorResponse(ExceptClause(out.cls), out.msg, req),
         raised |-> IF out.kind = "raise" THEN out.cls ELSE "none",
         fs |-> out.fs, ran |-> out.ran]

\* ------------------------------------------------------ file agent steps
\* The allow-lists an agent is started with.
FileAllowLists == {None, Some(<< <<CompA>> >>)}

\* The paths of the requests: /a/f, /ab/f, /a/l/f (through the symlink),
\* /a/../ab/f, the directories /a and /ab, and /f/f (its parent is missing).
FilePaths ==
    {<<CompA, CompF>>, <<CompAB, CompF>>, <<CompA, CompL, CompF>>,
     <<CompA, DotDot, CompAB, CompF>>, <<CompA>>, <<CompAB>>, <<CompF, CompF>>}

\* The content parameters of write_file: a text, the Base64 of "Hello"
\* and of a byte string that is not UTF-8, a string that is not Base64.
FileParams(method) ==
    CASE method = METHOD_RUN_COMMAND ->
            {<<>>, [cmd |-> "ls"]}
            \cup {[cmd |-> "ls", cwd |-> p] : p \in FilePaths}
            \cup {[cmd |-> "ls", cwd |-> p, timeout |-> 5] : p \in {<<CompA>>, <<CompAB>>}}
      [] method = METHOD_WRITE_FILE ->
            {<<>>} \cup {[path |-> p] : p \in FilePaths}
            \cup {[path |-> p, content |-> <<104>>] : p \in FilePaths}
            \cup {[path |-> p, content |-> c, binary |-> TRUE] :
                     p \in FilePaths, c \in {b64encode(Hello), b64encode(<<255>>), <<18>>}}
      [] OTHER -> {<<>>} \cup {[path |-> p] : p \in FilePaths}

NoWrite == [path |-> <<>>, content |-> <<>>, binary |-> FALSE]

InitFiles ==
    /\ agent_allowed_paths = "unset"
    /\ fs = FsInit
    /\ cmdsRun = 0
    /\ fileLast = [request |-> [method |-> "", params |-> <<>>, id |-> None],
                   env |-> "ok",
                   call |-> [response |-> Response_success("", None), raised |-> "none",
                             fs |-> FsInit, ran |-> 0],
                   before |-> [fs |-> FsInit, ran |-> 0]]
    /\ lastWrite = NoWrite
    /\ nFileOps = 0

\* Agent.__init__(allowed_paths).
AgentInit(a) ==
    /\ agent_allowed_paths = "unset"
    /\ agent_allowed_paths' = a
    /\ UNCHANGED <<fs, cmdsRun, fileLast, lastWrite, nFileOps>>
    /\ UNCHANGED nonFileVars

\* A request of a path-taking method arrives and handle_request answers it.
FileRequest(req, env) ==
    /\ agent_allowed_paths # "unset"
    /\ nFileOps < MaxFileOps
    /\ LET call == handle_file_request(req, agent_allowed_paths, env, fs, cmdsRun)
       IN  /\ fileLast' = [request |-> req, env |-> env, call |-> call,
                           before |-> [fs |-> fs, ran |-> cmdsRun]]
           /\ fs' = call.fs
           /\ cmdsRun' = call.ran
           /\ lastWrite' = IF req.method = METHOD_WRITE_FILE /\ call.raised = "none"
                           THEN [path |-> call.response.result[1].path,
                                 content |-> req.params.content,
                                 binary |-> "binary" \in DOMAIN req.params /\ req.params.binary]
                           ELSE lastWrite
    /\ nFileOps' = nFileOps + 1
    /\ UNCHANGED agent_allowed_paths
    /\ UNCHANGED nonFileVars

\* --------------------------------------------------- HTTP authentication
\* ASGI scopes served by the application create_http_app returns.
MaxHttpRequests == 2

\* Text is a sequence of code points, header values are sequences of bytes.
\* The two API keys of the model are "k" and "x".
KeyK == <<107>>
KeyX == <<120>>
BearerPrefix == <<66, 101, 97, 114, 101, 114, 32>>    \* "Bearer "
LowerBearerPrefix == <<98, 101, 97, 114, 101, 114, 32>>    \* "bearer "

\* A path is the sequence of its segments, one for each "/": "/" is <<"">>,
\* "/health" is <<"health">>, "/static/" is <<"static", "">>, "" is <<>>.
PUBLIC_PATHS ==
    {<<"health">>, <<"clients">>, <<"internal", "register">>, <<"">>, <<"client">>}

\* path.startswith(("/static/", "/_app/", "/icons/", "/logos/")): the first
\* segment is one of the four and a "/" follows it.
StaticPrefixes == {"static", "_app", "icons", "logos"}

AuthMiddleware_is_public_path(path) ==
    \/ path \in PUBLIC_PATHS
    \/ Len(path) >= 2 /\ path[1] \in StaticPrefixes

\* urllib.parse.parse_qs(query_string).get(name): the values of the fields
\* called name, in order, blank values dropped.  The query string is given as
\* its fields, a sequence of [name, value] records.
RECURSIVE parse_qs_get(_, _)
parse_qs_get(query, name) ==
    IF query = <<>> THEN <<>>
    ELSE (IF Head(query).name = name /\ Head(query).value # <<>>
          THEN <<Head(query).value>> ELSE <<>>)
         \o parse_qs_get(Tail(query), name)

\* AuthMiddleware._check_auth: [raised, ok].  The Authorization header is
\* decoded as UTF-8 first; a value that is not UTF-8 raises
\* UnicodeDecodeError, which nothing in the middleware catches.
AuthMiddleware_check_auth(api_key, scope) ==
    LET raw == IF scope.authorization = None THEN <<>> ELSE scope.authorization[1]
        auth == Utf8Decode(raw)
    IN  IF ~auth.ok THEN [raised |-> "UnicodeDecodeError", ok |-> FALSE]
        ELSE IF /\ Len(auth.chars) >= 7
                /\ SubSeq(auth.chars, 1, 7) = BearerPrefix
                /\ SubSeq(auth.chars, 8, Len(auth.chars)) = api_key
             THEN [raised |-> "none", ok |-> TRUE]
        ELSE LET values == parse_qs_get(scope.query, "token")
                 token == IF values = <<>> THEN None ELSE Some(values[1])
             IN  [raised |-> "none",
                  ok |-> scope.query # <<>> /\ token = Some(api_key)]

\* The endpoint the Starlette router gives a scope to: the routes list and
\* the static mounts, for a request method the route accepts.
Router(scope) ==
    LET p == scope.path
    IN  IF scope.type = "lifespan" THEN "lifespan"
        ELSE IF scope.type = "websocket"
             THEN IF p = <<"api", "v1", "ws">> THEN "websocket_handler" ELSE "not_found"
        ELSE IF p = <<"sse">> THEN "handle_streamable_http"
        ELSE IF Len(p) >= 2 /\ p[1] = "messages" THEN "handle_post_message"
        ELSE IF p = <<"health">> THEN "health_check"
        ELSE IF p = <<"clients">> THEN "list_clients_legacy"
        ELSE IF p = <<"internal", "register">> THEN "internal_register"
        ELSE IF p \in {<<"">>, <<"client">>} THEN "spa_fallback"
        ELSE IF p = <<"api", "v1", "dashboard">> THEN "api_dashboard"
        ELSE IF p = <<"api", "v1", "clients">> THEN "api_clients"
        ELSE IF Len(p) = 4 /\ SubSeq(p, 1, 3) = <<"api", "v1", "clients">>
             THEN "api_client_detail"
        ELSE IF p = <<"api", "v1", "events">> THEN "api_events"
        ELSE IF Len(p) >= 2 /\ p[1] \in StaticPrefixes THEN "StaticFiles"
        ELSE "not_found"

\* What the endpoints put in their responses.
\* health_check: status, service and the two client counts.
\* list_clients_legacy, api_clients, api_client_detail, api_dashboard,
\* websocket_handler: the registry's client records.  api_events: the event
\* store, whose events name clients.  The MCP endpoints run tools on clients.
ClientDataEndpoints ==
    {"list_clients_legacy", "api_clients", "api_client_detail", "api_dashboard",
     "api_events", "websocket_handler", "handle_streamable_http", "handle_post_message"}

\* What one __call__ of the outermost ASGI callable does.
Passed(scope) ==
    [raised |-> "none", status |-> 0, close |-> 0, app |-> TRUE, endpoint |-> Router(scope)]
Rejected(status, close) ==
    [raised |-> "none", status |-> status, close |-> close, app |-> FALSE, endpoint |-> ""]
Raised(cls) ==
    [raised |-> cls, status |-> 0, close |-> 0, app |-> FALSE, endpoint |-> ""]

\* AuthMiddleware.__call__.
AuthMiddleware_call(api_key, scope) ==
    IF scope.type = "http" /\ api_key # None
    THEN IF ~AuthMiddleware_is_public_path(scope.path)
         THEN LET a == AuthMiddleware_check_auth(api_key[1], scope)
              IN  IF a.raised # "none" THEN Raised(a.raised)
                  ELSE IF ~a.ok THEN Rejected(401, 0)
                  ELSE Passed(scope)
         ELSE Passed(scope)
    ELSE IF scope.type = "websocket" /\ api_key # None
    THEN LET a == AuthMiddleware_check_auth(api_key[1], scope)
         IN  IF a.raised # "none" THEN Raised(a.raised)
             ELSE IF ~a.ok THEN Rejected(0, 4001)
             ELSE Passed(scope)
    ELSE Passed(scope)

\* Python's "a or b" over Optional[str]: None and "" are false.
Or(a, b) == IF a # None /\ a # Some(<<>>) THEN a ELSE b

\* shared.compat.env(new, old) with default None, over the two variables.
compat_env(new, old) == Or(Or(new, old), None)

\* create_http_app: the application is wrapped in AuthMiddleware only when
\* the argument or the environment gives a key.
create_http_app(api_key, new, old) ==
    LET effective_api_key == Or(api_key, compat_env(new, old))
    IN  IF effective_api_key # None /\ effective_api_key # Some(<<>>)
        THEN [created |-> TRUE, auth |-> TRUE, api_key |-> effective_api_key]
        ELSE [created |-> TRUE, auth |-> FALSE, api_key |-> None]

ApiKeyArgs == {None, Some(KeyK)}
EnvValues == {None, Some(<<>>), Some(KeyX)}

\* Authorization header values: absent, Bearer with either key, a wrong
\* scheme spelling, the bare key, and one byte that is not UTF-8.
AuthorizationValues ==
    {None, Some(BearerPrefix \o KeyK), Some(BearerPrefix \o KeyX),
     Some(LowerBearerPrefix \o KeyK), Some(KeyK), Some(<<255>>)}

QueryStrings ==
    {<<>>,
     <<[name |-> "token", value |-> KeyK]>>,
     <<[name |-> "token", value |-> KeyX]>>,
     <<[name |-> "token", value |-> <<>>], [name |-> "token", value |-> KeyK]>>}

HttpPaths ==
    {<<"health">>, <<"health", "">>, <<"clients">>, <<"internal", "register">>, <<"">>,
     <<"client">>, <<"static", "app.js">>, <<"static">>, <<"sse">>,
     <<"api", "v1", "clients">>, <<"api", "v1", "clients", "U1">>}

WebSocketPaths == {<<"api", "v1", "ws">>, <<"health">>}

HttpScopes ==
    {[type |-> "http", path |-> p, authorization |-> a, query |-> q] :
        p \in HttpPaths, a \in AuthorizationValues, q \in QueryStrings}

WebSocketScopes ==
    {[type |-> "websocket", path |-> p, authorization |-> a, query |-> q] :
        p \in WebSocketPaths, a \in AuthorizationValues, q \in QueryStrings}

LifespanScope == [type |-> "lifespan", path |-> <<>>, authorization |-> None, query |-> <<>>]

\* Before create_http_app is called there is no application.
NoApp == [created |-> FALSE, auth |-> FALSE, api_key |-> None]

InitHttp ==
    /\ http_app = NoApp
    /\ httpLast = [scope |-> LifespanScope, out |-> Rejected(0, 0), appCallsBefore |-> 0]
    /\ nHttp = 0
    /\ appCalls = 0

\* create_http_app(api_key) with the two environment variables as they are.
CreateHttpApp(api_key, new, old) ==
    /\ ~http_app.created
    /\ http_app' = create_http_app(api_key, new, old)
    /\ UNCHANGED <<httpLast, nHttp, appCalls>>
    /\ UNCHANGED nonHttpVars

\* The server hands one scope to the application create_http_app returned:
\* AuthMiddleware when a key is configured, the Starlette app itself when not.
Serve(scope) ==
    /\ http_app.created
    /\ nHttp < MaxHttpRequests
    /\ LET out == IF http_app.auth THEN AuthMiddleware_call(http_app.api_key, scope)
                  ELSE Passed(scope)
       IN  /\ httpLast' = [scope |-> scope, out |-> out, appCallsBefore |-> appCalls]
           /\ appCalls' = IF out.app THEN appCalls + 1 ELSE appCalls
    /\ nHttp' = nHttp + 1
    /\ UNCHANGED http_app
    /\ UNCHANGED nonHttpVars


\* ============================================================ operator API
\* The REST endpoints an operator calls, the event store and the WebSocket
\* stream of http_server.py.
\* Operator requests served in one behaviour.
MaxApiRequests == 2

\* EventStore(max_events): the maxlen of the deque.  The server builds its
\* store with the default of 100; the model builds it with a small length.
max_events == 3

\* Wall-clock readings: whole seconds and the microsecond part (0 or .5 s).
Times == {[s |-> 0, us |-> 0], [s |-> 0, us |-> 5], [s |-> 1, us |-> 0]}

\* datetime.isoformat() of a UTC time, from the seconds digit on: the
\* fraction is left out when the microseconds are 0, then "+00:00" follows.
\* 43 is "+", 46 is ".", 48 is "0".
isoformat(t) ==
    <<48 + t.s>> \o (IF t.us = 0 THEN <<>> ELSE <<46, 48 + t.us>>) \o <<43>>

\* EventStore.add: the event is put at the left end; a full deque drops its
\* right end.
EventStore_add_append_right(evs, type, u) ==
    LET all == evs \o <<[type |-> type, client_uuid |-> u]>>
    IN  SubSeq(all, 1, IF Len(all) < max_events THEN Len(all) ELSE max_events)

EventStore_add(evs, type, u) ==
    LET all == <<[type |-> type, client_uuid |-> u]>> \o evs
    IN  SubSeq(all, 1, IF Len(all) < max_events THEN Len(all) ELSE max_events)

\* EventStore.get_recent(limit): list(self._events)[:limit].
EventStore_get_recent(evs, limit) ==
    IF limit >= 0
    THEN SubSeq(evs, 1, IF limit < Len(evs) THEN limit ELSE Len(evs))
    ELSE SubSeq(evs, 1, IF Len(evs) + limit > 0 THEN Len(evs) + limit ELSE 0)

\* WebSocketManager.broadcast: the message is sent to every socket of
\* _connections.
WebSocketManager_broadcast(handlers, conns, type) ==
    [w \in DOMAIN handlers |->
        IF w \in conns
        THEN [handlers[w] EXCEPT !.delivered = Append(@, type)]
        ELSE handlers[w]]

\* record_command: one CommandRecord is built and added to the store.
record_command(hist, u, stdout, stderr, returncode, completed_at, user) ==
    Append(hist, [client_uuid |-> u, stdout |-> stdout, stderr |-> stderr,
                  returncode |-> returncode, completed_at |-> isoformat(completed_at),
                  user |-> user])

OperatorOps == {"run", "files.list", "files.preview", "files.download", "files.upload"}

\* The agent method an endpoint calls on the connection.
RpcMethod(op) ==
    CASE op = "run" -> METHOD_RUN_COMMAND
      [] op = "files.list" -> METHOD_LIST_FILES
      [] op = "files.upload" -> METHOD_WRITE_FILE
      [] OTHER -> METHOD_READ_FILE

\* The event an endpoint adds after its RPC returned ("": none).
EventType(op) ==
    CASE op = "run" -> "command_executed"
      [] op = "files.preview" -> ""
      [] OTHER -> "file_accessed"

\* A check that answers an offline client as it answers an unknown one.
ClientCheck_offline_as_unknown(info) ==
    IF ~info.found \/ ~info.online THEN 404 ELSE 0

\* "if client_info is None: 404; if not client_info.get('online'): 503".
ClientCheck(info) ==
    IF ~info.found THEN 404 ELSE IF ~info.online THEN 503 ELSE 0

Answer(status, p, hist, evs, acquired, rpc) ==
    [status |-> status, pool |-> p, history |-> hist, events |-> evs,
     acquired |-> acquired, rpc |-> rpc]

\* An except clause that answers without writing the failed record.
OperationFailure_no_record(op, u, e, now, p, hist, evs, acquired, rpc) ==
    Answer(500, p, hist, evs, acquired, rpc)

\* "except Exception as e": run records the failed command (empty stdout,
\* str(e) in stderr, returncode -1); every endpoint answers 500.
OperationFailure(op, u, e, now, p, hist, evs, acquired, rpc) ==
    Answer(500, p,
           IF op = "run" THEN record_command(hist, u, "", e, -1, now, "web") ELSE hist,
           evs, acquired, rpc)

\* The try block of an endpoint: get_connection, the RPC, then for run the
\* history record, then the event.  env is what the transport does:
\* get_connection cannot reach the client, or the RPC fails on the tunnel.
OperationTry(op, u, env, res, now, p, conns, hist, evs) ==
    IF env = "ConnectError"
    THEN OperationFailure(op, u, "cannot connect", now, p, hist, evs, FALSE, "")
    ELSE LET p2 == get_connection(p, conns, u)
         IN  IF env = "RpcError"
             THEN OperationFailure(op, u, "tunnel closed", now, p2, hist, evs,
                                   TRUE, RpcMethod(op))
             ELSE Answer(200, p2,
                         IF op = "run"
                         THEN record_command(hist, u, res.stdout, res.stderr,
                                             res.returncode, now, "web")
                         ELSE hist,
                         IF EventType(op) # ""
                         THEN EventStore_add(evs, EventType(op), u)
                         ELSE evs,
                         TRUE, RpcMethod(op))

\* api_run_command, api_list_files, api_file_preview, api_file_download and
\* api_file_upload.  wellFormed: the request has its command (run), its path
\* (preview, download), its file and path (upload); list defaults its path.
api_operation(op, u, wellFormed, env, res, now, ids, conns, p, hist, evs) ==
    LET info == describe_client(ids, conns, u)
        bad == ~wellFormed /\ op # "files.list"
    IN  IF op # "files.upload" /\ bad THEN Answer(400, p, hist, evs, FALSE, "")
        ELSE IF ClientCheck(info) # 0
        THEN Answer(ClientCheck(info), p, hist, evs, FALSE, "")
        ELSE IF bad THEN Answer(400, p, hist, evs, FALSE, "")
        ELSE OperationTry(op, u, env, res, now, p, conns, hist, evs)

\* What run_command gives back on the agent: a command that printed and one
\* that failed.
RunResults ==
    {[stdout |-> "hi\n", stderr |-> "", returncode |-> 0],
     [stdout |-> "", stderr |-> "not found", returncode |-> 127]}

\* uuids of operator requests: an agent's and one never registered.
RequestUuids == {"U1", "U9"}

\* The registrations of that agent: the first, and its reconnect as a new
\* process on a new tunnel port.
ApiRegistrations == {r \in Registrations : r.uuid = "U1" /\ r.fingerprint = "SHA256:AAA"}

\* The clock reading of operator requests.
ApiTimes == {t \in Times : t.s = 0 /\ t.us = 5}

TransportOutcomes == {"ok", "ConnectError", "RpcError"}

WebSockets == {"w1", "w2"}

NoOperation ==
    [op |-> "", uuid |-> "", wellFormed |-> TRUE, env |-> "ok",
     res |-> [stdout |-> "", stderr |-> "", returncode |-> 0], now |-> [s |-> 0, us |-> 0],
     info |-> [found |-> FALSE, online |-> FALSE, tunnel_port |-> 0],
     out |-> [status |-> 0, acquired |-> FALSE, rpc |-> ""],
     before |-> [pool |-> [u \in Uuids |-> NoEntry], history |-> <<>>, events |-> <<>>],
     after |-> [pool |-> [u \in Uuids |-> NoEntry], history |-> <<>>, events |-> <<>>]]

InitApi ==
    /\ history = <<>>
    /\ events = <<>>
    /\ ws_connections = {}
    /\ wsHandlers = [w \in WebSockets |-> [pc |-> "none", delivered |-> <<>>]]
    /\ apiLast = NoOperation
    /\ nApi = 0

\* One operator request, served from its first line to its response.
ApiOperation(op, u, wellFormed, env, res, now) ==
    /\ nApi < MaxApiRequests
    /\ LET out == api_operation(op, u, wellFormed, env, res, now,
                                identities, connections, pool, history, events)
       IN  /\ pool' = out.pool
           /\ history' = out.history
           /\ events' = out.events
           /\ apiLast' = [op |-> op, uuid |-> u, wellFormed |-> wellFormed, env |-> env,
                          res |-> res, now |-> now,
                          info |-> describe_client(identities, connections, u),
                          out |-> [status |-> out.status, acquired |-> out.acquired,
                                   rpc |-> out.rpc],
                          before |-> [pool |-> pool, history |-> history,
                                      events |-> events],
                          after |-> [pool |-> out.pool, history |-> out.history,
                                     events |-> out.events]]
    /\ nApi' = nApi + 1
    /\ UNCHANGED <<ws_connections, wsHandlers>>
    /\ UNCHANGED <<identities, connections, health, regTasks, opTasks, lastStatus,
                   superseded, nRegs, nReqs>>
    /\ UNCHANGED nonServerApiVars

\* internal_register, from the payload to the response: the pool entry is
\* evicted, the health state reset, the registration stored, the
\* client.connected event added and broadcast.
ApiInternalRegister(r) ==
    /\ nRegs < MaxRegistrations
    /\ nRegs' = nRegs + 1
    /\ pool' = RegisterEvict(pool, r.client_id)
    /\ health' = RegisterResetHealth(health, r.uuid)
    /\ identities' = RegisterIdentity(identities, r.uuid, r.fingerprint)
    /\ connections' = InstallConnection(connections, r.uuid, r.client_id, r.tunnel_port)
    /\ superseded' = [superseded EXCEPT ![r.uuid] =
           (@ \cup {c.tunnel_port : c \in ConnectionsOf(connections, r.uuid)})
               \ {r.tunnel_port}]
    /\ lastStatus' = 200
    /\ events' = EventStore_add(events, "client.connected", r.uuid)
    /\ wsHandlers' = WebSocketManager_broadcast(wsHandlers, ws_connections, "client.connected")
    /\ UNCHANGED <<regTasks, opTasks, nReqs>>
    /\ UNCHANGED <<history, ws_connections, apiLast, nApi>>
    /\ UNCHANGED nonServerApiVars

\* websocket_handler up to its await of registry.list_clients: the socket is
\* accepted and added to the manager's connections.
WsConnect(w) ==
    /\ wsHandlers[w].pc = "none"
    /\ ws_connections' = ws_connections \cup {w}
    /\ wsHandlers' = [wsHandlers EXCEPT ![w].pc = "connected"]
    /\ UNCHANGED <<history, events, apiLast, nApi>>
    /\ UNCHANGED nonApiVars

\* websocket_handler sends the initial_state message and goes on to its
\* receive loop.
WsSendInitialState(w) ==
    /\ wsHandlers[w].pc = "connected"
    /\ wsHandlers' = [wsHandlers EXCEPT ![w].pc = "open",
                                        ![w].delivered = Append(@, "initial_state")]
    /\ UNCHANGED <<history, events, ws_connections, apiLast, nApi>>
    /\ UNCHANGED nonApiVars

\* WebSocketDisconnect in the receive loop: the finally clause removes the
\* socket from the manager's connections.
WsDisconnect(w) ==
    /\ wsHandlers[w].pc = "open"
    /\ ws_connections' = ws_connections \ {w}
    /\ wsHandlers' = [wsHandlers EXCEPT ![w].pc = "closed"]
    /\ UNCHANGED <<history, events, apiLast, nApi>>
    /\ UNCHANGED nonApiVars

\* ========================================================= command history
\* CommandHistoryStore and the history endpoint.
\* Rows in the command_history table.
MaxHistory == 2

\* Lexicographic order of two strings (sequences of character codes), the
\* order SQLite's BINARY collation gives TEXT values.
RECURSIVE StrLess(_, _)
StrLess(a, b) ==
    IF b = <<>> THEN FALSE
    ELSE IF a = <<>> THEN TRUE
    ELSE IF Head(a) # Head(b) THEN Head(a) < Head(b)
    ELSE StrLess(Tail(a), Tail(b))

\* api_command_history: the returncode_filter of the status parameter.
StatusFilter(status) ==
    IF status = "success" THEN Some(0)
    ELSE IF status = "failed" THEN Some(-1)
    ELSE None

\* A WHERE clause without the client_uuid condition.
Where_any_client(row, u, returncode_filter) ==
    IF returncode_filter = None THEN TRUE
    ELSE IF returncode_filter[1] = 0 THEN row.returncode = 0
    ELSE row.returncode # 0

\* list_for_client, the WHERE clause (no search string): client_uuid = ?,
\* and "returncode = 0" or "returncode != 0" when a filter is given.
Where(row, u, returncode_filter) ==
    /\ row.client_uuid = u
    /\ IF returncode_filter = None THEN TRUE
       ELSE IF returncode_filter[1] = 0 THEN row.returncode = 0
       ELSE row.returncode # 0

\* The rows of a table that satisfy the WHERE clause, in rowid order.
SelectWhere(hist, u, returncode_filter) ==
    SelectSeq(hist, LAMBDA row : Where(row, u, returncode_filter))

\* ORDER BY completed_at DESC: an insertion sort on the TEXT column; rows
\* with equal completed_at stay in rowid order (SQL leaves their order open).
RECURSIVE InsertDesc(_, _)
InsertDesc(sorted, row) ==
    IF sorted = <<>> THEN <<row>>
    ELSE IF StrLess(Head(sorted).completed_at, row.completed_at)
         THEN <<row>> \o sorted
         ELSE <<Head(sorted)>> \o InsertDesc(Tail(sorted), row)

RECURSIVE OrderByCompletedAtDesc(_)
OrderByCompletedAtDesc(rows) ==
    IF rows = <<>> THEN <<>>
    ELSE InsertDesc(OrderByCompletedAtDesc(SubSeq(rows, 1, Len(rows) - 1)),
                    rows[Len(rows)])

\* LIMIT ? OFFSET ?: SQLite reads a negative limit as no limit and a negative
\* offset as 0.
LimitOffset(rows, limit, offset) ==
    LET from == IF offset < 0 THEN 0 ELSE offset
        upto == IF limit < 0 \/ from + limit > Len(rows) THEN Len(rows) ELSE from + limit
    IN  SubSeq(rows, from + 1, upto)

\* CommandHistoryStore.list_for_client: (records, total).
list_for_client(hist, u, limit, offset, returncode_filter) ==
    LET rows == SelectWhere(hist, u, returncode_filter)
    IN  [records |-> LimitOffset(OrderByCompletedAtDesc(rows), limit, offset),
         total |-> Len(rows)]

\* api_command_history: status, limit and offset come from the query string.
api_command_history(hist, u, status, limit, offset) ==
    LET page == list_for_client(hist, u, limit, offset, StatusFilter(status))
    IN  [commands |-> page.records, total |-> page.total,
         limit |-> limit, offset |-> offset]

\* The rows written to the table: commands of U1 with every outcome at every
\* clock reading, and two commands of U2.
HistoryRows ==
    {[client_uuid |-> "U1", stdout |-> "", stderr |-> "", returncode |-> rc,
      completed_at |-> isoformat(t), user |-> "api"] : rc \in {0, 1, -1}, t \in Times}
    \cup {[client_uuid |-> "U2", stdout |-> "", stderr |-> "", returncode |-> rc,
           completed_at |-> isoformat([s |-> 0, us |-> 5]), user |-> "api"] : rc \in {0, 1}}

HistoryStatuses == {"", "success", "failed"}

NoQuery ==
    [uuid |-> "", status |-> "", table |-> <<>>,
     out |-> [commands |-> <<>>, total |-> 0, limit |-> 0, offset |-> 0]]

InitHistory == historyLast = NoQuery

\* CommandHistoryStore.add: one row is inserted.
HistoryAdd(row) ==
    /\ Len(history) < MaxHistory
    /\ historyLast = NoQuery
    /\ history' = Append(history, row)
    /\ UNCHANGED <<events, ws_connections, wsHandlers, apiLast, nApi, historyLast>>
    /\ UNCHANGED nonApiHistoryVars

\* GET /api/v1/clients/{uuid}/history.
HistoryQuery(u, status, limit, offset) ==
    /\ historyLast = NoQuery
    /\ historyLast' = [uuid |-> u, status |-> status, table |-> history,
                       out |-> api_command_history(history, u, status, limit, offset)]
    /\ UNCHANGED apiVars
    /\ UNCHANGED nonApiHistoryVars

\* ============================================================= event store
\* EventStore on its own: events are added and the recent ones read.
\* Events added in one run: enough to fill the deque and drop two.
MaxEventAdds == max_events + 2

EventTypes == {"client.connected", "client.disconnected", "command_executed"}

NoRead == [called |-> FALSE, limit |-> 0, store |-> <<>>, out |-> <<>>]

InitEvents ==
    /\ eventLog = <<>>
    /\ eventsLast = NoRead

\* EventStore.add, and the event noted in the log of all events added.
EventStoreAdd(type, u) ==
    /\ Len(eventLog) < MaxEventAdds
    /\ events' = EventStore_add(events, type, u)
    /\ eventLog' = Append(eventLog, [type |-> type, client_uuid |-> u])
    /\ UNCHANGED <<history, ws_connections, wsHandlers, apiLast, nApi, eventsLast>>
    /\ UNCHANGED nonApiEventsVars

\* GET /api/v1/events?limit=N: _event_store.get_recent(limit).
ApiEvents(limit) ==
    /\ eventsLast' = [called |-> TRUE, limit |-> limit, store |-> events,
                      out |-> EventStore_get_recent(events, limit)]
    /\ UNCHANGED <<apiVars, eventLog>>
    /\ UNCHANGED nonApiEventsVars

\* ==================================================================== SFTP
\* ClientSFTPInterface.rename on the agent's filesystem.
\* Renames one SFTP session asks for.
MaxSftpOps == 2

SFTP_OK == "SFTP_OK"
SFTP_NO_SUCH_FILE == "SFTP_NO_SUCH_FILE"
SFTP_PERMISSION_DENIED == "SFTP_PERMISSION_DENIED"

\* The entries at or below p.
Under(f, p) == {q \in DOMAIN f : relative_to(q, p)}

\* os.rename(o, n) fails with an OSError: the root is busy, a directory
\* cannot move into itself, a file cannot replace a directory nor a
\* directory a file or a directory that is not empty.
RenameFails(f, o, n) ==
    \/ o = <<>> \/ n = <<>>
    \/ o # n /\ f[o].type = "dir" /\ relative_to(n, o)
    \/ o # n /\ n \in DOMAIN f /\ f[o].type # f[n].type
    \/ o # n /\ n \in DOMAIN f /\ f[n].type = "dir" /\ Under(f, n) # {n}

\* os.rename(o, n), when it succeeds: o and all below it move to n.
Rename(f, o, n) ==
    IF o = n THEN f
    ELSE LET kept == DOMAIN f \ (Under(f, o) \cup Under(f, n))
             moved == {n \o SubSeq(q, Len(o) + 1, Len(q)) : q \in Under(f, o)}
         IN  [q \in kept \cup moved |->
                 IF q \in moved THEN f[o \o SubSeq(q, Len(n) + 1, Len(q))] ELSE f[q]]

SftpReturn(code, f) == [code |-> code, fs |-> f]

\* A rename that validates the old path only.
ClientSFTPInterface_rename_old_only(allowed, f, oldpath, newpath) ==
    LET old == ClientSFTPInterface_validate_path(allowed, FileLinks, oldpath)
        new_resolved == Resolve(newpath, FileLinks)
    IN  IF old.kind # "ok" THEN SftpReturn(SFTP_PERMISSION_DENIED, f)
        ELSE IF old.resolved # <<>> /\ old.resolved \notin DOMAIN f
        THEN SftpReturn(SFTP_NO_SUCH_FILE, f)
        ELSE IF \E q \in Ancestors(new_resolved) : q \in DOMAIN f /\ f[q].type = "file"
        THEN SftpReturn(SFTP_NO_SUCH_FILE, f)
        ELSE LET made == MkdirParents(f, new_resolved)
             IN  IF RenameFails(made, old.resolved, new_resolved)
                 THEN SftpReturn(SFTP_NO_SUCH_FILE, made)
                 ELSE SftpReturn(SFTP_OK, Rename(made, old.resolved, new_resolved))

\* ClientSFTPInterface.rename: validate the old path, validate the new path,
\* look for the old one, make the parents of the new one, rename.
\* PermissionError gives SFTP_PERMISSION_DENIED, any other OSError
\* SFTP_NO_SUCH_FILE.
ClientSFTPInterface_rename(allowed, f, oldpath, newpath) ==
    LET old == ClientSFTPInterface_validate_path(allowed, FileLinks, oldpath)
        new == ClientSFTPInterface_validate_path(allowed, FileLinks, newpath)
    IN  IF old.kind # "ok" THEN SftpReturn(SFTP_PERMISSION_DENIED, f)
        ELSE IF new.kind # "ok" THEN SftpReturn(SFTP_PERMISSION_DENIED, f)
        ELSE IF old.resolved # <<>> /\ old.resolved \notin DOMAIN f
        THEN SftpReturn(SFTP_NO_SUCH_FILE, f)
        ELSE IF \E q \in Ancestors(new.resolved) : q \in DOMAIN f /\ f[q].type = "file"
        THEN SftpReturn(SFTP_NO_SUCH_FILE, f)
        ELSE LET made == MkdirParents(f, new.resolved)
             IN  IF RenameFails(made, old.resolved, new.resolved)
                 THEN SftpReturn(SFTP_NO_SUCH_FILE, made)
                 ELSE SftpReturn(SFTP_OK, Rename(made, old.resolved, new.resolved))

\* The paths of the renames: the file /ab/f, the same file through the
\* symlink /a/l, /a/f, /a/a/f and /f/f (their parents are missing), /a/a,
\* and the directories /a and /ab.
SftpPaths ==
    {<<CompAB, CompF>>, <<CompA, CompL, CompF>>, <<CompA, CompF>>,
     <<CompA, CompA, CompF>>, <<CompF, CompF>>, <<CompA, CompA>>, <<CompA>>, <<CompAB>>}

NoRename ==
    [called |-> FALSE, oldpath |-> <<>>, newpath |-> <<>>, before |-> FsInit,
     code |-> SFTP_OK]

NoOpen ==
    [called |-> FALSE, path |-> <<>>, flags |-> {}, before |-> FsInit, mode |-> "",
     code |-> SFTP_OK]

InitSftp ==
    /\ sftp_allowed_paths = "unset"
    /\ sftpLast = NoRename
    /\ nSftpOps = 0
    /\ sftpOpenLast = NoOpen

\* ClientSFTPInterface.__init__(server, allowed_paths).
SftpInit(a) ==
    /\ sftp_allowed_paths = "unset"
    /\ sftp_allowed_paths' = a
    /\ UNCHANGED <<sftpLast, nSftpOps, sftpOpenLast>>
    /\ UNCHANGED nonSftpVars

\* The SFTP client asks for a rename.
SftpRename(oldpath, newpath) ==
    /\ sftp_allowed_paths # "unset"
    /\ nSftpOps < MaxSftpOps
    /\ LET out == ClientSFTPInterface_rename(sftp_allowed_paths, fs, oldpath, newpath)
       IN  /\ fs' = out.fs
           /\ sftpLast' = [called |-> TRUE, oldpath |-> oldpath, newpath |-> newpath,
                           before |-> fs, code |-> out.code]
    /\ nSftpOps' = nSftpOps + 1
    /\ UNCHANGED <<sftp_allowed_paths, sftpOpenLast, agent_allowed_paths, cmdsRun, fileLast,
                   lastWrite, nFileOps>>
    /\ UNCHANGED nonFileSftpVars

\* ---------------------------------------------------------------- SFTP open
\* The open flags are the set of the names of their bits; O_RDONLY is 0, no
\* access bit.
OpenFlags ==
    {{}, {"O_WRONLY"}, {"O_WRONLY", "O_APPEND"}, {"O_RDWR"}, {"O_RDWR", "O_APPEND"},
     {"O_RDWR", "O_CREAT"}, {"O_WRONLY", "O_CREAT", "O_TRUNC"}}

\* ClientSFTPHandle.open: the Python file mode of the flags.
ClientSFTPHandle_mode(flags) ==
    IF "O_WRONLY" \in flags
    THEN IF "O_APPEND" \in flags THEN "ab" ELSE "wb"
    ELSE IF "O_RDWR" \in flags
         THEN IF "O_APPEND" \in flags THEN "ab+" ELSE "rb+"
         ELSE "rb"

\* "if 'w' in mode or 'a' in mode".
ModeMakesParents(mode) == mode \in {"wb", "ab", "ab+"}

\* open(path, mode): a directory cannot be opened, "r" modes need the file,
\* "w" and "a" modes need its parent; "w" empties the file, "a" makes it
\* when it is missing.
BuiltinOpen(f, p, mode) ==
    IF p = <<>> \/ (p \in DOMAIN f /\ f[p].type = "dir")
    THEN [ok |-> FALSE, fs |-> f]
    ELSE IF p \notin DOMAIN f
              /\ (mode \in {"rb", "rb+"}
                  \/ \E q \in Ancestors(p) : q \notin DOMAIN f \/ f[q].type # "dir")
    THEN [ok |-> FALSE, fs |-> f]
    ELSE IF mode = "wb" THEN [ok |-> TRUE, fs |-> WriteData(f, p, <<>>)]
    ELSE IF p \notin DOMAIN f THEN [ok |-> TRUE, fs |-> WriteData(f, p, <<>>)]
    ELSE [ok |-> TRUE, fs |-> f]

\* ClientSFTPHandle.open(path, flags): the mode, the parents for "w" and "a"
\* modes, then the file is opened.
ClientSFTPHandle_open(f, p, flags) ==
    LET mode == ClientSFTPHandle_mode(flags)
    IN  IF ModeMakesParents(mode)
        THEN IF \E q \in Ancestors(p) : q \in DOMAIN f /\ f[q].type = "file"
             THEN [ok |-> FALSE, fs |-> f]
             ELSE BuiltinOpen(MkdirParents(f, p), p, mode)
        ELSE BuiltinOpen(f, p, mode)

\* ClientSFTPInterface.open: validate, then open a handle; PermissionError
\* gives SFTP_PERMISSION_DENIED, any other OSError SFTP_NO_SUCH_FILE.
ClientSFTPInterface_open(allowed, f, path, flags) ==
    LET v == ClientSFTPInterface_validate_path(allowed, FileLinks, path)
    IN  IF v.kind # "ok" THEN SftpReturn(SFTP_PERMISSION_DENIED, f)
        ELSE LET h == ClientSFTPHandle_open(f, v.resolved, flags)
             IN  SftpReturn(IF h.ok THEN "handle" ELSE SFTP_NO_SUCH_FILE, h.fs)

\* The SFTP client opens a file.
SftpOpen(path, flags) ==
    /\ sftp_allowed_paths # "unset"
    /\ nSftpOps < MaxSftpOps
    /\ LET out == ClientSFTPInterface_open(sftp_allowed_paths, fs, path, flags)
       IN  /\ fs' = out.fs
           /\ sftpOpenLast' = [called |-> TRUE, path |-> path, flags |-> flags,
                               before |-> fs, mode |-> ClientSFTPHandle_mode(flags),
                               code |-> out.code]
    /\ nSftpOps' = nSftpOps + 1
    /\ UNCHANGED <<sftp_allowed_paths, sftpLast, agent_allowed_paths, cmdsRun, fileLast,
                   lastWrite, nFileOps>>
    /\ UNCHANGED nonFileSftpVars

\* ========================================================== health monitor
\* The Health Monitor's probes (spec 4.9).
\* Heartbeats probed in one run.
MaxHeartbeats == 5

\* K: consecutive failures after which a client goes offline.
failure_threshold == 3

\* A monitor that counts a failure whether or not the grace period is over.
HealthMonitor_record_counting_in_grace(h, u, ok) ==
    IF ok THEN [h EXCEPT ![u].consecutive_failures = 0]
    ELSE [h EXCEPT ![u].consecutive_failures = @ + 1]

\* The result of one heartbeat is taken in: nothing is counted before the
\* grace deadline; after it a success zeroes the count and a failure adds one.
HealthMonitor_record(h, u, ok) ==
    IF h[u].grace THEN h
    ELSE IF ok THEN [h EXCEPT ![u].consecutive_failures = 0]
    ELSE [h EXCEPT ![u].consecutive_failures = @ + 1]

ClientDisconnected(u) == [type |-> "client.disconnected", client_uuid |-> u]

InitHealth ==
    /\ beats = [u \in Uuids |-> <<>>]
    /\ emitted = <<>>
    /\ nBeats = 0

\* The monitor probes an online client and takes the result in; at the
\* threshold the client goes offline and client.disconnected is emitted.
Heartbeat(u, ok) ==
    /\ nBeats < MaxHeartbeats
    /\ describe_client(identities, connections, u).online
    /\ LET h == HealthMonitor_record(health, u, ok)
       IN  /\ health' = h
           /\ IF h[u].consecutive_failures >= failure_threshold
              THEN /\ connections' = unregister(connections, u)
                   /\ emitted' = Append(emitted, ClientDisconnected(u))
              ELSE UNCHANGED <<connections, emitted>>
    /\ beats' = [beats EXCEPT ![u] =
                    Append(@, [ok |-> ok, grace |-> health[u].grace, epoch |-> nRegs])]
    /\ nBeats' = nBeats + 1
    /\ UNCHANGED <<identities, pool, regTasks, opTasks, lastStatus, superseded, nRegs, nReqs>>
    /\ UNCHANGED nonServerHealthVars

\* ============================================================ send_command
\* SSHSessionManager.send_command, statement by statement. Time is counted
\* in ticks of 0.1 s, the length of the loop's sleep.
\* The clock stops counting at MaxClock ticks, past every deadline.
MaxClock == 30
\* Chunks of output counted.
MaxChunks == 2

\* "if time.time() - last_output_time > 2.0": 2.0 s, in ticks.
QuietTicks == 20

\* The timeout arguments, in ticks: 0.5 s and 2.5 s.
SendTimeouts == {5, 25}

\* What the remote shell answers the command with: a number of chunks and
\* then silence ("finite"), a chunk whenever _read_available is called
\* ("steady"), or data faster than recv takes it away ("flood").
ShellOutputs ==
    {[kind |-> "finite", left |-> n] : n \in 0..2}
    \cup {[kind |-> "steady", left |-> 0], [kind |-> "flood", left |-> 0]}

Tick(now) == IF now < MaxClock THEN now + 1 ELSE MaxClock

\* shell.recv_ready(): data is buffered. Before the command is sent the
\* buffer holds the stale chunks; after it, what the shell has written.
RecvReady(call) ==
    IF call.pc = "clear" THEN call.stale > 0
    ELSE CASE call.shell.kind = "finite" -> call.shell.left > 0
           [] call.shell.kind = "steady" -> ~call.got
           [] OTHER -> TRUE

NoCall ==
    [pc |-> "idle", stale |-> 0, shell |-> [kind |-> "finite", left |-> 0], timeout |-> 0,
     now |-> 0, deadline |-> 0, last_output_time |-> 0, got |-> FALSE, chunks |-> 0,
     result |-> [kind |-> "none", chunks |-> 0]]

InitSend == sendCall = NoCall

\* send_command(session_id, command, timeout) is called: KeyError for an
\* unknown session, else the pending output is cleared first.
SendCommand(known, stale, shell, timeout) ==
    /\ sendCall.pc = "idle"
    /\ sendCall' =
           IF ~known
           THEN [sendCall EXCEPT !.pc = "done", !.result = [kind |-> "KeyError", chunks |-> 0]]
           ELSE [sendCall EXCEPT !.pc = "clear", !.stale = stale, !.shell = shell,
                                 !.timeout = timeout]
    /\ UNCHANGED nonSendVars

\* _read_available: "while shell.recv_ready()" is evaluated.
ReadAvailablePoll ==
    /\ sendCall.pc \in {"clear", "read"}
    /\ sendCall' =
           IF RecvReady(sendCall)
           THEN [sendCall EXCEPT !.pc = IF @ = "clear" THEN "clear_recv" ELSE "read_recv"]
           ELSE [sendCall EXCEPT !.pc = IF @ = "clear" THEN "send" ELSE "after_read"]
    /\ UNCHANGED nonSendVars

\* _read_available: "chunk = shell.recv(4096); output += chunk.decode(...)".
\* A chunk read while clearing is thrown away.
ReadAvailableRecv ==
    /\ sendCall.pc \in {"clear_recv", "read_recv"}
    /\ sendCall' =
           IF sendCall.pc = "clear_recv"
           THEN [sendCall EXCEPT !.pc = "clear", !.stale = @ - 1, !.now = Tick(@)]
           ELSE [sendCall EXCEPT
                    !.pc = "read",
                    !.shell = IF @.kind = "finite" THEN [@ EXCEPT !.left = @ - 1] ELSE @,
                    !.now = Tick(@),
                    !.got = TRUE,
                    !.chunks = IF @ < MaxChunks THEN @ + 1 ELSE @]
    /\ UNCHANGED nonSendVars

\* "shell.send(command + '\n')", then deadline and last_output_time are set.
ShellSend ==
    /\ sendCall.pc = "send"
    /\ sendCall' = [sendCall EXCEPT !.pc = "loop",
                                    !.deadline = sendCall.now + sendCall.timeout,
                                    !.last_output_time = sendCall.now]
    /\ UNCHANGED nonSendVars

\* "while time.time() < deadline": the next round calls _read_available, or
\* the loop is left and the accumulated output returned.
LoopTest ==
    /\ sendCall.pc = "loop"
    /\ sendCall' =
           IF sendCall.now < sendCall.deadline
           THEN [sendCall EXCEPT !.pc = "read", !.got = FALSE]
           ELSE [sendCall EXCEPT !.pc = "done",
                                 !.result = [kind |-> "return", chunks |-> sendCall.chunks]]
    /\ UNCHANGED nonSendVars

\* The round after _read_available returned: output arrived, or the quiet
\* period is over and the loop is left, or the thread sleeps 0.1 s.
AfterRead ==
    /\ sendCall.pc = "after_read"
    /\ sendCall' =
           IF sendCall.got
           THEN [sendCall EXCEPT !.pc = "loop", !.last_output_time = sendCall.now]
           ELSE IF sendCall.now - sendCall.last_output_time > QuietTicks
           THEN [sendCall EXCEPT !.pc = "done",
                                 !.result = [kind |-> "return", chunks |-> sendCall.chunks]]
           ELSE [sendCall EXCEPT !.pc = "loop", !.now = Tick(@)]
    /\ UNCHANGED nonSendVars

\* ====================================================== WebSocket manager
\* WebSocketManager under its asyncio.Lock, with websocket_handler and
\* broadcast split at their awaits.
\* Broadcast tasks in one run.
MaxBroadcasts == 2
Broadcasts == 1..MaxBroadcasts

NoHolder == [held |-> FALSE, by |-> 0, socket |-> ""]
HeldByBroadcast(b) == [held |-> TRUE, by |-> b, socket |-> ""]

\* A lock that lets every task in.
Lock_acquirable_always(lock) == TRUE

\* "async with self._lock" is entered without waiting: the lock is free.
Lock_acquirable(lock) == ~lock.held

\* A handler whose failed snapshot skips the finally clause.
snapshot_failed_no_finally(h) == [h EXCEPT !.pc = "terminated"]

\* websocket_handler: an exception in the try block runs the finally clause.
snapshot_failed(h) == [h EXCEPT !.pc = "finally"]

NoBroadcast == [pc |-> "idle", todo |-> {}, failed |-> {}, sent |-> {}]

InitWs ==
    /\ ws_lock = NoHolder
    /\ ws_broadcasts = [b \in Broadcasts |-> NoBroadcast]

\* "await websocket.accept()": the handshake is done, or it raises and the
\* handler ends before it connected.
HandlerAccept(w, ok) ==
    /\ wsHandlers[w].pc = "none"
    /\ wsHandlers' = [wsHandlers EXCEPT ![w].pc = IF ok THEN "accepted" ELSE "terminated"]
    /\ UNCHANGED <<history, events, ws_connections, apiLast, nApi>>
    /\ UNCHANGED wsVars
    /\ UNCHANGED nonApiWsVars

\* WebSocketManager.connect: under the lock the socket is added.
HandlerConnect(w) ==
    /\ wsHandlers[w].pc = "accepted"
    /\ Lock_acquirable(ws_lock)
    /\ ws_connections' = ws_connections \cup {w}
    /\ wsHandlers' = [wsHandlers EXCEPT ![w].pc = "connected"]
    /\ UNCHANGED <<history, events, apiLast, nApi>>
    /\ UNCHANGED wsVars
    /\ UNCHANGED nonApiWsVars

\* The initial_state message is built and sent, or that fails.
HandlerSnapshot(w, ok) ==
    /\ wsHandlers[w].pc = "connected"
    /\ wsHandlers' =
           [wsHandlers EXCEPT ![w] =
               IF ok THEN [@ EXCEPT !.pc = "open", !.delivered = Append(@, "initial_state")]
               ELSE snapshot_failed(@)]
    /\ UNCHANGED <<history, events, ws_connections, apiLast, nApi>>
    /\ UNCHANGED wsVars
    /\ UNCHANGED nonApiWsVars

\* The receive loop ends: WebSocketDisconnect breaks it, any other exception
\* leaves the try block; both run the finally clause.
HandlerReceiveEnds(w) ==
    /\ wsHandlers[w].pc = "open"
    /\ wsHandlers' = [wsHandlers EXCEPT ![w].pc = "finally"]
    /\ UNCHANGED <<history, events, ws_connections, apiLast, nApi>>
    /\ UNCHANGED wsVars
    /\ UNCHANGED nonApiWsVars

\* finally: WebSocketManager.disconnect, under the lock the socket is
\* discarded; the handler has ended.
HandlerDisconnect(w) ==
    /\ wsHandlers[w].pc = "finally"
    /\ Lock_acquirable(ws_lock)
    /\ ws_connections' = ws_connections \ {w}
    /\ wsHandlers' = [wsHandlers EXCEPT ![w].pc = "terminated"]
    /\ UNCHANGED <<history, events, apiLast, nApi>>
    /\ UNCHANGED wsVars
    /\ UNCHANGED nonApiWsVars

\* broadcast is called: "if not self._connections: return", else it goes
\* on to the lock.
BroadcastBegin(b) ==
    /\ ws_broadcasts[b].pc = "idle"
    /\ ws_broadcasts' = [ws_broadcasts EXCEPT ![b].pc =
                            IF ws_connections = {} THEN "done" ELSE "acquire"]
    /\ UNCHANGED ws_lock
    /\ UNCHANGED apiVars
    /\ UNCHANGED nonApiWsVars

\* "async with self._lock: for ws in self._connections": the lock is taken
\* and the iteration starts.
BroadcastAcquire(b) ==
    /\ ws_broadcasts[b].pc = "acquire"
    /\ Lock_acquirable(ws_lock)
    /\ ws_lock' = HeldByBroadcast(b)
    /\ ws_broadcasts' = [ws_broadcasts EXCEPT ![b] =
                            [pc |-> "sending", todo |-> ws_connections,
                             failed |-> {}, sent |-> {}]]
    /\ UNCHANGED apiVars
    /\ UNCHANGED nonApiWsVars

\* "await ws.send_text(message_text)" for the next socket: it is sent, or
\* the send raises and the socket is noted in disconnected.
BroadcastSend(b, w, ok) ==
    /\ ws_broadcasts[b].pc = "sending"
    /\ w \in ws_broadcasts[b].todo
    /\ ws_broadcasts' = [ws_broadcasts EXCEPT
                            ![b].todo = @ \ {w},
                            ![b].failed = IF ok THEN @ ELSE @ \cup {w},
                            ![b].sent = IF ok THEN @ \cup {w} ELSE @]
    /\ wsHandlers' = IF ok THEN [wsHandlers EXCEPT ![w].delivered = Append(@, "event")]
                     ELSE wsHandlers
    /\ UNCHANGED ws_lock
    /\ UNCHANGED <<history, events, ws_connections, apiLast, nApi>>
    /\ UNCHANGED nonApiWsVars

\* The iteration is over: the sockets of disconnected are discarded and the
\* lock is released.
BroadcastFinish(b) ==
    /\ ws_broadcasts[b].pc = "sending"
    /\ ws_broadcasts[b].todo = {}
    /\ ws_connections' = ws_connections \ ws_broadcasts[b].failed
    /\ ws_lock' = NoHolder
    /\ ws_broadcasts' = [ws_broadcasts EXCEPT ![b].pc = "done"]
    /\ UNCHANGED <<history, events, wsHandlers, apiLast, nApi>>
    /\ UNCHANGED nonApiWsVars

\* ===================================================== history store lock
\* CommandHistoryStore's calls, split at the entries of "async with
\* self._lock", as concurrent tasks.
\* Concurrent calls of the store.
MaxStoreTasks == 2
StoreTasks == 1..MaxStoreTasks

StoreMethods == {"add", "get", "list_for_client", "delete_old", "delete_for_client"}

\* An _ensure_initialized that does not test the flag again under the lock.
SecondCheck_skipped(initialized) == TRUE

\* _ensure_initialized, under the lock: "if not self._initialized".
SecondCheck(initialized) == ~initialized

NoStoreCall == [pc |-> "idle", method |-> ""]

InitStore ==
    /\ hs_store = [lock |-> NoHolder, initialized |-> FALSE, init_count |-> 0,
                   statements |-> 0, early |-> 0]
    /\ hs_tasks = [t \in StoreTasks |-> NoStoreCall]

\* A task calls a method of the store: "await self._ensure_initialized()".
StoreCall(t, method) ==
    /\ hs_tasks[t].pc = "idle"
    /\ hs_tasks' = [hs_tasks EXCEPT ![t] = [pc |-> "ensure", method |-> method]]
    /\ UNCHANGED hs_store
    /\ UNCHANGED nonStoreVars

\* _ensure_initialized: "if not self._initialized", outside the lock.
EnsureTest(t) ==
    /\ hs_tasks[t].pc = "ensure"
    /\ hs_tasks' = [hs_tasks EXCEPT ![t].pc =
                       IF hs_store.initialized THEN "op_wait" ELSE "init_wait"]
    /\ UNCHANGED hs_store
    /\ UNCHANGED nonStoreVars

\* _ensure_initialized: "async with self._lock" is entered.
EnsureAcquire(t) ==
    /\ hs_tasks[t].pc = "init_wait"
    /\ Lock_acquirable(hs_store.lock)
    /\ hs_store' = [hs_store EXCEPT !.lock = HeldByBroadcast(t)]
    /\ hs_tasks' = [hs_tasks EXCEPT ![t].pc = "init_locked"]
    /\ UNCHANGED nonStoreVars

\* _ensure_initialized, under the lock: the second test, _init_db (which
\* sets _initialized), and the lock is released.
EnsureInit(t) ==
    /\ hs_tasks[t].pc = "init_locked"
    /\ hs_store' =
           IF SecondCheck(hs_store.initialized)
           THEN [hs_store EXCEPT !.lock = NoHolder, !.initialized = TRUE,
                                 !.init_count = @ + 1]
           ELSE [hs_store EXCEPT !.lock = NoHolder]
    /\ hs_tasks' = [hs_tasks EXCEPT ![t].pc = "op_wait"]
    /\ UNCHANGED nonStoreVars

\* The method's "async with self._lock" is entered.
StoreAcquire(t) ==
    /\ hs_tasks[t].pc = "op_wait"
    /\ Lock_acquirable(hs_store.lock)
    /\ hs_store' = [hs_store EXCEPT !.lock = HeldByBroadcast(t)]
    /\ hs_tasks' = [hs_tasks EXCEPT ![t].pc = "in_section"]
    /\ UNCHANGED nonStoreVars

\* The method's statement runs on a connection, the connection is closed
\* and the lock released.
StoreStatement(t) ==
    /\ hs_tasks[t].pc = "in_section"
    /\ hs_store' = [hs_store EXCEPT
                       !.lock = NoHolder,
                       !.statements = @ + 1,
                       !.early = IF hs_store.initialized THEN @ ELSE @ + 1]
    /\ hs_tasks' = [hs_tasks EXCEPT ![t].pc = "done"]
    /\ UNCHANGED nonStoreVars

\* ===================================================== history retention
\* CommandHistoryStore.delete_old and get, and the command detail endpoint,
\* on a table whose rows carry their id and the date of completed_at.
\* The largest retention period asked for, in days.
MaxDays == 2

\* Days of the months the model's dates lie in (a year that is not leap).
DaysInMonth(mo) == IF mo = 2 THEN 28 ELSE 31

\* datetime.isoformat() of a UTC time from the month on: "MM-DDT", then
\* the time as isoformat gives it.  45 is "-", 84 is "T".
isoformat_date(dt) ==
    <<48 + (dt.mo \div 10), 48 + (dt.mo % 10), 45,
      48 + (dt.d \div 10), 48 + (dt.d % 10), 84>>
    \o isoformat([s |-> dt.s, us |-> dt.us])

\* The dates of the model: the turn of February to March.
Dates == {[mo |-> 2, d |-> 28], [mo |-> 3, d |-> 1], [mo |-> 3, d |-> 2]}

\* The readings of "now": some time on one of the first days of March.
Nows == {[mo |-> 3, d |-> d, s |-> 1, us |-> 5] : d \in 1..(MaxDays + 1)}

\* The records put into the table: commands of both clients, completed at
\* midnight or later in the day.
DatedRows ==
    {[client_uuid |-> u, stdout |-> "", stderr |-> "", returncode |-> 0,
      completed_at |-> isoformat_date([mo |-> date.mo, d |-> date.d, s |-> 0, us |-> us]),
      user |-> "api"] : u \in Uuids, date \in Dates, us \in {0, 5}}

\* datetime.replace(day=...): the day has to lie in the month.
ReplaceDayOk(mo, day) == day >= 1 /\ day <= DaysInMonth(mo)

\* delete_old: now at 00:00:00.000000, its day replaced, as ISO text.
cutoff_str(now, day) ==
    isoformat_date([mo |-> now.mo, d |-> day, s |-> 0, us |-> 0])

\* CommandHistoryStore.delete_old(days): cutoff.replace(day=cutoff.day -
\* days) raises ValueError for a day outside the month; otherwise the rows
\* with completed_at < cutoff are deleted and their number returned.
delete_old(hist, days, now) ==
    LET day == now.d - days
    IN  IF ~ReplaceDayOk(now.mo, day)
        THEN [raised |-> TRUE, deleted |-> 0, table |-> hist]
        ELSE LET kept == SelectSeq(hist, LAMBDA row :
                             ~StrLess(row.completed_at, cutoff_str(now, day)))
             IN  [raised |-> FALSE, deleted |-> Len(hist) - Len(kept), table |-> kept]

\* CommandHistoryStore.get: SELECT ... WHERE id = ?.
CommandHistoryStore_get(hist, command_id) ==
    LET rows == SelectSeq(hist, LAMBDA row : row.id = command_id)
    IN  IF rows = <<>> THEN None ELSE Some(rows[1])

\* api_command_detail: the command_id of the path is looked up; no record
\* gives 404, a record is returned as JSON.  The uuid of the path is not read.
api_command_detail(hist, u, command_id) ==
    LET record == CommandHistoryStore_get(hist, command_id)
    IN  IF record = None THEN [status |-> 404, record |-> None]
        ELSE [status |-> 200, record |-> record]

NoStoreOp ==
    [op |-> "", uuid |-> "", id |-> 0, days |-> 0,
     now |-> [mo |-> 0, d |-> 0, s |-> 0, us |-> 0], table |-> <<>>,
     status |-> 0, record |-> None, raised |-> FALSE, deleted |-> 0]

InitRetention == storeLast = NoStoreOp

\* CommandHistoryStore.add of a record with a fresh id (uuid4 in
\* record_command): the ids are 1, 2, ... in the order of insertion.
StoreAdd(row) ==
    /\ Len(history) < MaxHistory
    /\ storeLast = NoStoreOp
    /\ history' = Append(history, [id |-> Len(history) + 1] @@ row)
    /\ UNCHANGED <<events, ws_connections, wsHandlers, apiLast, nApi, storeLast>>
    /\ UNCHANGED nonApiRetentionVars

\* CommandHistoryStore.delete_old(days) at the time now.
DeleteOld(days, now) ==
    /\ storeLast = NoStoreOp
    /\ LET out == delete_old(history, days, now)
       IN  /\ history' = out.table
           /\ storeLast' = [NoStoreOp EXCEPT !.op = "delete_old", !.days = days,
                               !.now = now, !.table = history,
                               !.raised = out.raised, !.deleted = out.deleted]
    /\ UNCHANGED <<events, ws_connections, wsHandlers, apiLast, nApi>>
    /\ UNCHANGED nonApiRetentionVars

\* GET /api/v1/clients/{uuid}/history/{command_id}.
CommandDetail(u, command_id) ==
    /\ storeLast = NoStoreOp
    /\ LET out == api_command_detail(history, u, command_id)
       IN  storeLast' = [NoStoreOp EXCEPT !.op = "detail", !.uuid = u,
                            !.id = command_id, !.table = history,
                            !.status = out.status, !.record = out.record]
    /\ UNCHANGED apiVars
    /\ UNCHANGED nonApiRetentionVars

\* ========================================================= SFTP connection
\* SFTPConnection of the server: connect, close and the file operations,
\* called one after the other.
\* Calls made on one connection object.
MaxConnOps == 3

\* __init__: no SSH client, no SFTP client, not connected.
ClosedConnection == [ssh_client |-> FALSE, sftp |-> FALSE, connected |-> FALSE]

\* The property is_connected.
is_connected(conn) == conn.connected /\ conn.sftp

\* close: the SFTP client and the SSH client that are present are closed in
\* a worker thread (an error of a close is logged) and dropped, and
\* _connected is cleared.  io counts the calls handed to worker threads.
SFTPConnection_close(conn) ==
    [conn |-> ClosedConnection,
     io |-> (IF conn.sftp THEN 1 ELSE 0) + (IF conn.ssh_client THEN 1 ELSE 0)]

\* An except clause of connect that re-raises without closing.
connect_failed_no_close(conn) == [conn |-> conn, io |-> 0]

\* connect, the except clause: "await self.close()", then "raise".
connect_failed(conn) == SFTPConnection_close(conn)

\* connect: a connected object returns at once; otherwise a new SSH client
\* is stored, ssh_client.connect and open_sftp run in worker threads;
\* env names the call that fails, if one does.
SFTPConnection_connect(conn, env) ==
    IF conn.connected THEN [conn |-> conn, io |-> 0, raised |-> ""]
    ELSE LET started == [conn EXCEPT !.ssh_client = TRUE]
         IN  IF env = "connect fails"
             THEN [conn |-> connect_failed(started).conn,
                   io |-> 1 + connect_failed(started).io, raised |-> env]
             ELSE IF env = "open_sftp fails"
             THEN [conn |-> connect_failed(started).conn,
                   io |-> 2 + connect_failed(started).io, raised |-> env]
             ELSE [conn |-> [started EXCEPT !.sftp = TRUE, !.connected = TRUE],
                   io |-> 2, raised |-> ""]

\* The transfers and file operations of the connection.
ConnectionOps ==
    {"upload", "download", "listdir", "stat", "remove", "mkdir", "rmdir", "rename"}

\* upload, download, listdir, stat, remove, mkdir, rmdir, rename: not
\* connected is RuntimeError("SFTP not connected") before anything else;
\* upload then looks for the local file; then the paramiko call runs in a
\* worker thread and its error, if any, is re-raised.
SFTPConnection_op(conn, op, env) ==
    IF ~conn.connected \/ ~conn.sftp
    THEN [conn |-> conn, io |-> 0, raised |-> "SFTP not connected"]
    ELSE IF op = "upload" /\ env = "no local file"
    THEN [conn |-> conn, io |-> 0, raised |-> "Local file not found"]
    ELSE [conn |-> conn, io |-> 1, raised |-> IF env = "ok" THEN "" ELSE env]

NoConnCall == [op |-> "", env |-> "", before |-> ClosedConnection, io |-> 0, raised |-> ""]

InitConn ==
    /\ sftp_conn = ClosedConnection
    /\ connLast = NoConnCall
    /\ nConnOps = 0

\* await connection.connect().
ConnConnect(env) ==
    /\ nConnOps < MaxConnOps
    /\ LET out == SFTPConnection_connect(sftp_conn, env)
       IN  /\ sftp_conn' = out.conn
           /\ connLast' = [op |-> "connect", env |-> env, before |-> sftp_conn,
                           io |-> out.io, raised |-> out.raised]
    /\ nConnOps' = nConnOps + 1
    /\ UNCHANGED nonConnVars

\* await connection.close().
ConnClose ==
    /\ nConnOps < MaxConnOps
    /\ LET out == SFTPConnection_close(sftp_conn)
       IN  /\ sftp_conn' = out.conn
           /\ connLast' = [op |-> "close", env |-> "ok", before |-> sftp_conn,
                           io |-> out.io, raised |-> ""]
    /\ nConnOps' = nConnOps + 1
    /\ UNCHANGED nonConnVars

\* await connection.<op>(...).
ConnFileOp(op, env) ==
    /\ nConnOps < MaxConnOps
    /\ LET out == SFTPConnection_op(sftp_conn, op, env)
       IN  /\ sftp_conn' = out.conn
           /\ connLast' = [op |-> op, env |-> env, before |-> sftp_conn,
                           io |-> out.io, raised |-> out.raised]
    /\ nConnOps' = nConnOps + 1
    /\ UNCHANGED nonConnVars

\* ============================================================ file transfer
\* The upload and download endpoints of the HTTP API, the agent's write_file
\* and read_file behind them.
\* Bytes of an uploaded file.
MaxUploadLen == 2

\* The bytes of the uploads: "h", the two bytes of U+00E9 in UTF-8, and
\* 255, which no UTF-8 text holds.
UploadBytes == {104, 195, 169, 255}

UploadContents == SeqsUpTo(UploadBytes, MaxUploadLen)

\* The character of the Base64 alphabet for a 6-bit value, "=" for the
\* padding, as its code point: bytes.decode("ascii") of b64encode's result.
B64Char(v) ==
    IF v < 26 THEN 65 + v
    ELSE IF v < 52 THEN 97 + (v - 26)
    ELSE IF v < 62 THEN 48 + (v - 52)
    ELSE IF v = 62 THEN 43
    ELSE IF v = 63 THEN 47
    ELSE 61

B64Text(s) == [i \in 1..Len(s) |-> B64Char(s[i])]

\* api_file_upload, after the client was found online: the content is the
\* text it decodes to as UTF-8, or else the text of its Base64; binary says
\* which.  conn.write_file(dest_path, text_content) sends the agent a
\* write_file request with path and content, and the answer names binary.
api_file_upload(content, dest_path, allowed, f) ==
    LET decoded == Utf8Decode(content)
        binary == ~decoded.ok
        text_content == IF decoded.ok THEN decoded.chars ELSE B64Text(b64encode(content))
        written == Agent_write_file([path |-> dest_path, content |-> text_content],
                                    allowed, f, 0)
    IN  IF written.kind = "raise"
        THEN [status |-> 500, binary |-> binary, fs |-> written.fs]
        ELSE [status |-> 200, binary |-> binary, fs |-> written.fs]

\* api_file_download, after the client was found online: read_file's content
\* is Base64-decoded when the answer says binary, and encoded as UTF-8
\* otherwise.
api_file_download(path, allowed, f) ==
    LET read == Agent_read_file([path |-> path], allowed, f, 0)
    IN  IF read.kind = "raise" THEN [status |-> 500, data |-> <<>>]
        ELSE IF "binary" \in DOMAIN read.result /\ read.result.binary
        THEN [status |-> 200, data |-> b64decode(read.result.content)]
        ELSE [status |-> 200, data |-> Utf8Encode(read.result.content)]

NoTransfer ==
    [stage |-> "none", content |-> <<>>, path |-> <<>>, binary |-> FALSE,
     uploaded |-> 0, downloaded |-> 0, data |-> <<>>]

InitTransfer == transferLast = NoTransfer

\* POST /api/v1/clients/{uuid}/files/upload.
ApiFileUpload(content, dest_path) ==
    /\ agent_allowed_paths # "unset"
    /\ transferLast.stage = "none"
    /\ LET out == api_file_upload(content, dest_path, agent_allowed_paths, fs)
       IN  /\ fs' = out.fs
           /\ transferLast' = [NoTransfer EXCEPT !.stage = "uploaded", !.content = content,
                                  !.path = dest_path, !.binary = out.binary,
                                  !.uploaded = out.status]
    /\ UNCHANGED <<agent_allowed_paths, cmdsRun, fileLast, lastWrite, nFileOps>>
    /\ UNCHANGED nonFileTransferVars

\* GET /api/v1/clients/{uuid}/files/download of the path uploaded to.
ApiFileDownload ==
    /\ transferLast.stage = "uploaded"
    /\ LET out == api_file_download(transferLast.path, agent_allowed_paths, fs)
       IN  transferLast' = [transferLast EXCEPT !.stage = "downloaded",
                               !.downloaded = out.status, !.data = out.data]
    /\ UNCHANGED fileVars
    /\ UNCHANGED nonFileTransferVars

\* ------------------------------------------------------------ server spec
InitServer ==
    /\ identities = [u \in Uuids |-> NoIdentity]
    /\ connections = {}
    /\ pool = [u \in Uuids |-> NoEntry]
    /\ health = [u \in Uuids |-> [consecutive_failures |-> 0, grace |-> FALSE]]
    /\ regTasks = {}
    /\ opTasks = {}
    /\ lastStatus = 0
    /\ superseded = [u \in Uuids |-> {}]
    /\ nRegs = 0 /\ nReqs = 0

Init ==
    /\ InitServer /\ InitCodec /\ InitAgent /\ InitPolicy /\ InitFiles /\ InitShutdown
    /\ InitHttp /\ InitApi /\ InitHistory /\ InitEvents /\ InitSftp /\ InitHealth /\ InitSend /\ InitWs /\ InitStore /\ InitRetention /\ InitConn /\ InitTransfer

NextServer ==
    \/ \E r \in Registrations :
           InternalRegisterBegin(r.uuid, r.client_id, r.tunnel_port, r.fingerprint)
    \/ \E t \in regTasks : InternalRegisterPublish(t)
    \/ \E t \in regTasks : InternalRegisterRespond(t)
    \/ \E u \in Uuids : Disconnect(u)
    \/ \E u \in Uuids : GraceExpire(u)
    \/ \E u \in Uuids, bodyOk \in BOOLEAN : ApiRunCommandBegin(u, bodyOk)
    \/ \E t \in opTasks : ApiRunCommandSend(t)
    \/ \E t \in opTasks, ok \in BOOLEAN : ApiRunCommandRespond(t, ok)

NextCodec ==
    \/ \E m \in Messages : CodecEncode(m)
    \/ CodecDecode
    \/ \E m \in Messages : CodecRoundTrip(m)
    \/ \E m \in Messages, k \in 0..(4 + 4 * MaxMsgLen) : CodecDecodePrefix(m, k)
    \/ \E r \in CodecRequests : RequestRoundTrip(r)

NextAgent ==
    /\ nServed < MaxAgentRequests
    /\ \E m \in AgentMethods, i \in {None, Some("7")}, env \in EnvOutcomes, sid \in SessionIds :
        \E p \in ParamsFor(m) :
            /\ env \in {"ok"} \cup HandlerFailures(m)
                       \cup (IF m = METHOD_RUN_COMMAND THEN {"TimeoutExpired"} ELSE {})
            /\ HandleRequest([method |-> m, params |-> p, id |-> i], env, sid)

NextPolicy ==
    \/ /\ pathLast.who = "none"
       /\ \E a \in AllowLists, l \in LinkSets, p \in RawPaths : AgentValidatePath(a, l, p)
    \/ /\ pathLast.who = "none"
       /\ \E a \in AllowLists, l \in LinkSets, p \in RawPaths : SftpValidatePath(a, l, p)

NextFiles ==
    \/ \E a \in FileAllowLists : AgentInit(a)
    \/ /\ agent_allowed_paths # "unset" /\ nFileOps < MaxFileOps
       /\ \E m \in {METHOD_READ_FILE, METHOD_WRITE_FILE, METHOD_LIST_FILES} :
              \E p \in FileParams(m) :
                  FileRequest([method |-> m, params |-> p, id |-> Some("7")], "ok")
    \/ /\ agent_allowed_paths # "unset" /\ nFileOps < MaxFileOps
       /\ \E p \in FileParams(METHOD_RUN_COMMAND), env \in {"ok", "TimeoutExpired", "OSError"} :
              FileRequest([method |-> METHOD_RUN_COMMAND, params |-> p, id |-> Some("7")], env)

NextShutdown ==
    \/ /\ ~shutdownLast.done
       /\ NextAgent
    \/ \E closeFails \in SUBSET SessionIds : CloseAll(closeFails)

NextHttp ==
    \/ /\ ~http_app.created
       /\ \E k \in ApiKeyArgs, new \in EnvValues, old \in EnvValues : CreateHttpApp(k, new, old)
    \/ /\ http_app.created /\ nHttp < MaxHttpRequests
       /\ \E sc \in HttpScopes : Serve(sc)
    \/ /\ http_app.created /\ nHttp < MaxHttpRequests
       /\ \E sc \in WebSocketScopes : Serve(sc)
    \/ /\ http_app.created /\ nHttp < MaxHttpRequests
       /\ Serve(LifespanScope)

\* The operator API with the registrations of one agent: the request inputs
\* that cannot matter to a request (a transport outcome for a request that is
\* refused, a result for an RPC that fails) are held at their defaults.
NextApi ==
    \/ /\ nRegs < MaxRegistrations
       /\ \E r \in ApiRegistrations : ApiInternalRegister(r)
    \/ \E u \in Uuids : Disconnect(u)
    \/ /\ nApi < MaxApiRequests
       /\ \E op \in OperatorOps \ {"files.list"} :
              ApiOperation(op, "U1", FALSE, "ok", NoOperation.res, NoOperation.now)
    \/ /\ nApi < MaxApiRequests
       /\ \E u \in RequestUuids, env \in TransportOutcomes,
             res \in RunResults \cup {NoOperation.res},
             now \in ApiTimes \cup {NoOperation.now} :
              /\ IF ~describe_client(identities, connections, u).online
                 THEN env = "ok" /\ res = NoOperation.res /\ now = NoOperation.now
                 ELSE /\ now \in ApiTimes
                      /\ IF env = "ok" THEN res \in RunResults ELSE res = NoOperation.res
              /\ ApiOperation("run", u, TRUE, env, res, now)
    \/ /\ nApi < MaxApiRequests
       /\ \E op \in OperatorOps \ {"run"}, u \in RequestUuids, env \in TransportOutcomes :
              /\ ~describe_client(identities, connections, u).online => env = "ok"
              /\ ApiOperation(op, u, TRUE, env, NoOperation.res, NoOperation.now)

\* The WebSocket stream beside the two paths that add events: registrations
\* and operator requests that succeed.
NextStream ==
    \/ /\ nRegs < MaxRegistrations
       /\ \E r \in ApiRegistrations : ApiInternalRegister(r)
    \/ /\ nApi < MaxApiRequests
       /\ \E op \in {"run", "files.list"} :
              ApiOperation(op, "U1", TRUE, "ok", NoOperation.res, NoOperation.now)
    \/ \E w \in WebSockets : WsConnect(w)
    \/ \E w \in WebSockets : WsSendInitialState(w)
    \/ \E w \in WebSockets : WsDisconnect(w)

NextHistory ==
    \/ /\ Len(history) < MaxHistory /\ historyLast = NoQuery
       /\ \E row \in HistoryRows : HistoryAdd(row)
    \/ /\ historyLast = NoQuery
       /\ \E u \in Uuids, status \in HistoryStatuses, limit \in 0..MaxHistory, offset \in 0..1 :
              HistoryQuery(u, status, limit, offset)

NextEvents ==
    \/ /\ Len(eventLog) < MaxEventAdds
       /\ \E type \in EventTypes : EventStoreAdd(type, "U1")
    \/ \E limit \in 0..(max_events + 1) : ApiEvents(limit)

NextSftpOpen ==
    \/ \E a \in FileAllowLists : SftpInit(a)
    \/ /\ sftp_allowed_paths # "unset" /\ nSftpOps < MaxSftpOps
       /\ \E path \in SftpPaths, flags \in OpenFlags : SftpOpen(path, flags)

NextSftp ==
    \/ \E a \in FileAllowLists : SftpInit(a)
    \/ /\ sftp_allowed_paths # "unset" /\ nSftpOps < MaxSftpOps
       /\ \E oldpath \in SftpPaths, newpath \in SftpPaths : SftpRename(oldpath, newpath)

\* The monitor beside the registrations of one agent, the loss of its
\* connection and the passing of its grace deadline.
NextHealth ==
    \/ /\ nRegs < MaxRegistrations
       /\ \E r \in ApiRegistrations : ApiInternalRegister(r)
    \/ \E u \in Uuids : Disconnect(u)
    \/ \E u \in Uuids : GraceExpire(u)
    \/ /\ nBeats < MaxHeartbeats
       /\ \E u \in Uuids, ok \in BOOLEAN : Heartbeat(u, ok)

NextSend ==
    \/ \E known \in BOOLEAN, stale \in 0..1, shell \in ShellOutputs, timeout \in SendTimeouts :
           SendCommand(known, stale, shell, timeout)
    \/ ReadAvailablePoll
    \/ ReadAvailableRecv
    \/ ShellSend
    \/ LoopTest
    \/ AfterRead

NextWs ==
    \/ \E w \in WebSockets, ok \in BOOLEAN : HandlerAccept(w, ok)
    \/ \E w \in WebSockets : HandlerConnect(w)
    \/ \E w \in WebSockets, ok \in BOOLEAN : HandlerSnapshot(w, ok)
    \/ \E w \in WebSockets : HandlerReceiveEnds(w)
    \/ \E w \in WebSockets : HandlerDisconnect(w)
    \/ \E b \in Broadcasts : BroadcastBegin(b)
    \/ \E b \in Broadcasts : BroadcastAcquire(b)
    \/ \E b \in Broadcasts, w \in WebSockets, ok \in BOOLEAN : BroadcastSend(b, w, ok)
    \/ \E b \in Broadcasts : BroadcastFinish(b)

NextStore ==
    \/ \E t \in StoreTasks, method \in StoreMethods : StoreCall(t, method)
    \/ \E t \in StoreTasks : EnsureTest(t)
    \/ \E t \in StoreTasks : EnsureAcquire(t)
    \/ \E t \in StoreTasks : EnsureInit(t)
    \/ \E t \in StoreTasks : StoreAcquire(t)
    \/ \E t \in StoreTasks : StoreStatement(t)

NextRetention ==
    \/ /\ Len(history) < MaxHistory /\ storeLast = NoStoreOp
       /\ \E row \in DatedRows : StoreAdd(row)
    \/ /\ storeLast = NoStoreOp
       /\ \E days \in 0..MaxDays, now \in Nows : DeleteOld(days, now)
    \/ /\ storeLast = NoStoreOp
       /\ \E u \in Uuids, command_id \in 1..(MaxHistory + 1) : CommandDetail(u, command_id)

NextConn ==
    \/ /\ nConnOps < MaxConnOps
       /\ \E env \in {"ok", "connect fails", "open_sftp fails"} : ConnConnect(env)
    \/ ConnClose
    \/ /\ nConnOps < MaxConnOps
       /\ \E op \in ConnectionOps, env \in {"ok", "no local file", "IOError"} :
              ConnFileOp(op, env)

NextTransfer ==
    \/ \E a \in FileAllowLists : AgentInit(a)
    \/ /\ agent_allowed_paths # "unset" /\ transferLast.stage = "none"
       /\ \E content \in UploadContents, dest_path \in FilePaths :
              ApiFileUpload(content, dest_path)
    \/ ApiFileDownload

vars == <<serverVars, codecVars, agentVars, policyVars, fileVars, shutdownVars, httpVars, apiVars, historyVars, eventsVars, sftpVars, healthVars, sendVars, wsVars, storeVars, retentionVars, connVars, transferVars>>

Spec == Init /\ [][NextServer]_vars

SpecCodec == Init /\ [][NextCodec]_vars

SpecAgent == Init /\ [][NextAgent]_vars

SpecPolicy == Init /\ [][NextPolicy]_vars

SpecFiles == Init /\ [][NextFiles]_vars

SpecShutdown == Init /\ [][NextShutdown]_vars

SpecHttp == Init /\ [][NextHttp]_vars

SpecApi == Init /\ [][NextApi]_vars

SpecStream == Init /\ [][NextStream]_vars

SpecHistory == Init /\ [][NextHistory]_vars

SpecEvents == Init /\ [][NextEvents]_vars

SpecSftp == Init /\ [][NextSftp]_vars

SpecSftpOpen == Init /\ [][NextSftpOpen]_vars

SpecHealth == Init /\ [][NextHealth]_vars

SpecSend == Init /\ [][NextSend]_vars

\* The thread that runs send_command keeps running: a statement that can be
\* executed is executed.
FairSpecSend == SpecSend /\ WF_vars(NextSend)

SpecWs == Init /\ [][NextWs]_vars

SpecStore == Init /\ [][NextStore]_vars

SpecRetention == Init /\ [][NextRetention]_vars

SpecConn == Init /\ [][NextConn]_vars

SpecTransfer == Init /\ [][NextTransfer]_vars

\* ------------------------------------------------------------------ claims
\* C1: for every reconnect of a uuid, the pool entry of the prior connection
\* is evicted before the new Connection is published: in no reachable state
\* does describe_client(u) show a tunnel port while the pool still caches a
\* client of u to another (superseded) port.
C1_EvictBeforePublish ==
    \A u \in Uuids :
        LET info == describe_client(identities, connections, u)
        IN  (info.online /\ pool[u] # NoEntry) => pool[u].port = info.tunnel_port

C3_OneConnectionPerUuid ==
    \A u \in Uuids : Cardinality(ConnectionsOf(connections, u)) <= 1

\* C3 witness: a registration replaced the Connection of a uuid that had one.
C3_Witness ==
    \E u \in Uuids :
        /\ superseded[u] # {}
        /\ Cardinality(ConnectionsOf(connections, u)) = 1
        /\ Cardinality(connections) = 1

\* C4: no step changes the uuid or the stored public_key_fingerprint of an
\* existing identity, and a registration that presents another fingerprint for
\* an existing uuid sets key_mismatch and records previous_fingerprint.
C4_FingerprintKept ==
    [][ /\ \A u \in Uuids :
              identities[u] # NoIdentity =>
                  /\ identities'[u] # NoIdentity
                  /\ identities'[u].uuid = identities[u].uuid
                  /\ identities'[u].public_key_fingerprint
                         = identities[u].public_key_fingerprint
        /\ \A t \in regTasks :
              ( /\ t.pc = "register" /\ t \notin regTasks'
                /\ identities[t.uuid] # NoIdentity
                /\ identities[t.uuid].public_key_fingerprint # t.fingerprint )
              => /\ identities'[t.uuid].key_mismatch
                 /\ identities'[t.uuid].previous_fingerprint = t.fingerprint
      ]_vars

\* C4 witness: U1, stored with SHA256:AAA, has re-registered with SHA256:BBB.
C4_Witness ==
    /\ identities["U1"] # NoIdentity
    /\ identities["U1"].public_key_fingerprint = "SHA256:AAA"
    /\ identities["U1"].key_mismatch
    /\ identities["U1"].previous_fingerprint = "SHA256:BBB"

\* Bytes the UTF-8 form of m takes, counted per code point.
RECURSIVE ByteCount(_)
ByteCount(m) ==
    IF m = <<>> THEN 0
    ELSE (IF Head(m) < 128 THEN 1 ELSE IF Head(m) < 2048 THEN 2
          ELSE IF Head(m) < 65536 THEN 3 ELSE 4) + ByteCount(Tail(m))

\* C5: decode_message(encode_message(m)) returns (m, empty remainder), the
\* encoding being 4 bytes of big-endian byte count (not character count)
\* followed by that many bytes; Request.from_json(Request.to_json(r)) returns
\* r's method, params and id.
C5_RoundTrip ==
    /\ codecLast.kind = "roundtrip" =>
          /\ codecLast.result.status = "ok"
          /\ codecLast.result.msg = codecLast.arg
          /\ codecLast.result.remaining = <<>>
          /\ Len(codecLast.input) = 4 + ByteCount(codecLast.arg)
          /\ FromBE32(SubSeq(codecLast.input, 1, 4)) = ByteCount(codecLast.arg)
    /\ codecLast.kind = "request" =>
          /\ codecLast.result.method = codecLast.arg.method
          /\ codecLast.result.params = codecLast.arg.params
          /\ codecLast.result.id = codecLast.arg.id

\* C5 witness: a message with multi-byte characters has made the round trip.
C5_Witness ==
    /\ codecLast.kind = "roundtrip"
    /\ codecLast.arg = <<12371, 104>>
    /\ Len(codecLast.input) = 8
    /\ codecLast.result.msg = <<12371, 104>>

\* C6: the messages decoded from a stream of concatenated encodings are the
\* messages written, in order; each call leaves exactly the encodings of the
\* messages not yet decoded, and nothing is left once all are decoded.
C6_StreamDecodesInOrder ==
    /\ Len(recvMsgs) <= Len(sentMsgs)
    /\ recvMsgs = SubSeq(sentMsgs, 1, Len(recvMsgs))
    /\ stream = EncodeAll(SubSeq(sentMsgs, Len(recvMsgs) + 1, Len(sentMsgs)))
    /\ (codecLast.kind = "decode" /\ codecLast.result.status = "ok") =>
          /\ codecLast.result.remaining = stream
          /\ codecLast.input = encode_message(codecLast.result.msg) \o stream

\* C6 witness: two different messages were written back to back, then both
\* decoded, the first call returning the second's encoding as remainder.
C6_Witness ==
    /\ Len(sentMsgs) = 2 /\ recvMsgs = sentMsgs /\ stream = <<>>
    /\ sentMsgs[1] = <<12371, 104>> /\ sentMsgs[2] = <<12371>>
    /\ codecLast.kind = "decode"

\* C7: decode_message of a proper prefix of an encoded message fails, with
\* the incomplete-header failure below 4 bytes and the incomplete-body failure
\* from 4 bytes on; it never returns a message.
C7_TruncationFails ==
    codecLast.kind = "prefix" =>
        codecLast.result.status =
            IF Len(codecLast.input) < 4 THEN "IncompleteHeader" ELSE "IncompleteBody"

\* C7 witness: a prefix that holds the header and part of the body was tried.
C7_Witness ==
    /\ codecLast.kind = "prefix"
    /\ Len(codecLast.input) = 5
    /\ codecLast.arg = <<12371>>
    /\ codecLast.result.status = "IncompleteBody"

\* The response of the last handle_request call and its serialized form.
LastResponse == agentLast.call.response[1]
LastJson == Response_to_json(LastResponse)

\* C8: every Response handle_request returns, on a success path or an error
\* path, carries exactly one of result and error, in the object and in its
\* serialized form, and the id of the request it answers.
C8_OneOfResultErrorAndIdEchoed ==
    (nServed > 0 /\ agentLast.call.response # None) =>
        /\ (LastResponse.result # None) # (LastResponse.error # None)
        /\ ("result" \in DOMAIN LastJson) # ("error" \in DOMAIN LastJson)
        /\ LastResponse.id = agentLast.request.id
        /\ LastJson.id = agentLast.request.id

\* C8 witness: a request with an id was answered on an error path after an
\* earlier one was answered on a success path or an error path.
C8_Witness ==
    /\ nServed = 2
    /\ agentLast.request.id = Some("7")
    /\ agentLast.call.raised = "KeyError"
    /\ LastResponse.id = Some("7")
    /\ DOMAIN LastJson = {"id", "error"}

\* C9: a request whose method is none of the ten handled methods is answered
\* with error code -32601, no handler runs and the SSH sessions stay as they
\* were; which handler runs is decided by the method alone.
C9_UnknownMethod ==
    nServed > 0 =>
        /\ agentLast.call.handler \in {"none", agentLast.request.method}
        /\ agentLast.request.method \notin
               {"run_command", "read_file", "write_file", "list_files", "heartbeat",
                "get_metrics", "ssh_session_open", "ssh_session_command",
                "ssh_session_close", "ssh_session_list"}
           => /\ agentLast.call.response # None
              /\ LastResponse.error # None
              /\ LastResponse.error[1].code = -32601
              /\ LastResponse.result = None
              /\ agentLast.call.handler = "none"
              /\ agentLast.call.raised = "none"
              /\ Sessions = agentLast.before

\* C9 witness: with an SSH session open, a register request (a method of the
\* protocol the agent does not handle) carrying params was answered.
C9_Witness ==
    /\ agentLast.request.method = "register"
    /\ agentLast.request.params = [cmd |-> "ls"]
    /\ ssh_shells # {}
    /\ LastResponse.error[1].code = -32601

\* C10: handle_request never lets an exception out: a handler's
\* PermissionError is answered with -32001, FileNotFoundError with -32002,
\* KeyError with -32602 and any other exception with -32000 and the
\* exception's message; the agent goes on serving requests.
C10_NeverPropagates ==
    nServed > 0 =>
        /\ agentLast.call.propagated = "none"
        /\ agentLast.call.response # None
        /\ agentLast.call.raised # "none" =>
              /\ LastResponse.error # None
              /\ LastResponse.error[1].code =
                    CASE agentLast.call.raised = "PermissionError" -> -32001
                      [] agentLast.call.raised = "FileNotFoundError" -> -32002
                      [] agentLast.call.raised = "KeyError" -> -32602
                      [] OTHER -> -32000
              /\ agentLast.call.raised \notin {"PermissionError", "FileNotFoundError", "KeyError"}
                     => LastResponse.error[1].message = agentLast.call.msg

\* C10 witness: after a request that ended in an exception outside the three
\* named classes, a later request was served; it too raised and was answered.
C10_Witness ==
    /\ erredBefore
    /\ nServed = MaxAgentRequests
    /\ agentLast.call.raised = "ConnectionError"
    /\ LastResponse.error[1].code = -32000
    /\ agentLast.call.propagated = "none"

\* p is base or lies under it: base is p, or one of p's ancestors.
Within(p, base) == \E k \in 0..Len(p) : SubSeq(p, 1, k) = base

\* C11: with a non-empty allow-list, the agent's and the SFTP subsystem's
\* path policy accept a path exactly when its resolved form is, or lies
\* under, the resolved form of an allow-list entry, and return the resolved
\* form; every other path is refused with the path-denied failure: /ab
\* against the entry /a, /a/../ab, and /a/l where l links to /ab.
C11_AllowListContainment ==
    (pathLast.who # "none" /\ pathLast.allowed_paths # None
        /\ pathLast.allowed_paths[1] # <<>>) =>
        LET entries == {Resolve(pathLast.allowed_paths[1][i], pathLast.links) :
                            i \in 1..Len(pathLast.allowed_paths[1])}
            resolved == Resolve(pathLast.path, pathLast.links)
        IN  /\ (\E e \in entries : Within(resolved, e)) =>
                  pathLast.result = [kind |-> "ok", resolved |-> resolved]
            /\ ~(\E e \in entries : Within(resolved, e)) =>
                  pathLast.result.kind = "PermissionError"
            /\ (pathLast.allowed_paths = Some(<< <<CompA>> >>)
                  /\ pathLast.path \in {<<CompAB>>, <<CompA, DotDot, CompAB>>})
                  => pathLast.result.kind = "PermissionError"
            /\ (pathLast.allowed_paths = Some(<< <<CompA>> >>)
                  /\ pathLast.path = <<CompA, CompL, CompF>>
                  /\ <<CompA, CompL>> \in DOMAIN pathLast.links)
                  => pathLast.result.kind = "PermissionError"

\* C11 witness: the SFTP policy refused a path that leaves the only entry /a
\* through the symlink /a/l -> /ab.
C11_Witness ==
    /\ pathLast.who = "sftp"
    /\ pathLast.allowed_paths = Some(<< <<CompA>> >>)
    /\ pathLast.path = <<CompA, CompL, CompF>>
    /\ <<CompA, CompL>> \in DOMAIN pathLast.links
    /\ pathLast.result.kind = "PermissionError"

\* C12: with a null or an empty allow-list the path policy of the agent and
\* of the SFTP subsystem accepts every path and returns its resolved form.
C12_EmptyAllowListUnrestricted ==
    (pathLast.who # "none"
        /\ (pathLast.allowed_paths = None \/ pathLast.allowed_paths = Some(<<>>))) =>
        pathLast.result = [kind |-> "ok", resolved |-> Resolve(pathLast.path, pathLast.links)]

\* The path a file or command request submits to the path policy, if any:
\* path for read_file, write_file and list_files, cwd for a run_command
\* that names its command.
PolicyPath(req) ==
    IF req.method = "run_command"
    THEN IF "cmd" \in DOMAIN req.params /\ "cwd" \in DOMAIN req.params
         THEN Some(req.params.cwd) ELSE None
    ELSE IF "path" \in DOMAIN req.params THEN Some(req.params.path) ELSE None

\* The agent's allow-list refuses the raw path.
Refused(raw) ==
    /\ agent_allowed_paths # None
    /\ ~\E i \in 1..Len(agent_allowed_paths[1]) :
           Within(Resolve(raw, FileLinks), Resolve(agent_allowed_paths[1][i], FileLinks))

\* C13: when the path of a read_file, write_file or list_files request, or
\* the cwd of a run_command request, is refused by the path policy, the
\* response is the -32001 error naming the path as sent, the same whatever
\* the filesystem holds, and the handler has touched nothing: no file
\* written or created, no parent directory made, no subprocess started.
C13_PolicyBeforeAccess ==
    (nFileOps > 0 /\ PolicyPath(fileLast.request) # None
        /\ Refused(PolicyPath(fileLast.request)[1])) =>
        /\ fileLast.call.response =
              [id |-> fileLast.request.id, result |-> None,
               error |-> Some([code |-> -32001,
                               message |-> <<"Path not in allowed list: ",
                                             PolicyPath(fileLast.request)[1]>>])]
        /\ fs = fileLast.before.fs
        /\ cmdsRun = fileLast.before.ran

\* C13 witness: a write_file to /f/f, outside the allow-list and with a
\* missing parent, was refused and /f was not made.
C13_Witness ==
    /\ fileLast.request.method = "write_file"
    /\ fileLast.request.params = [path |-> <<CompF, CompF>>, content |-> <<104>>]
    /\ agent_allowed_paths = Some(<< <<CompA>> >>)
    /\ fileLast.call.response.error[1].code = -32001
    /\ <<CompF>> \notin DOMAIN fs

\* The last request was a run_command that passed the parameter and path
\* checks, so that subprocess.run was called.
SubprocessCalled ==
    /\ nFileOps > 0
    /\ fileLast.request.method = "run_command"
    /\ "cmd" \in DOMAIN fileLast.request.params
    /\ "cwd" \in DOMAIN fileLast.request.params => ~Refused(fileLast.request.params.cwd)

\* C14: a run_command whose subprocess exceeds its timeout N is answered
\* with a success response whose result has returncode -1, an empty stdout
\* and stderr "Command timed out after N seconds"; every other failure of
\* the subprocess call is answered with the error code -32000.
C14_TimeoutResultOtherFailures ==
    SubprocessCalled =>
        /\ (fileLast.env = "TimeoutExpired" /\ fileLast.call.raised = "none") =>
              fileLast.call.response =
                  [id |-> fileLast.request.id, error |-> None,
                   result |-> Some([stdout |-> "",
                                    stderr |-> <<"Command timed out after ",
                                                 IF "timeout" \in DOMAIN fileLast.request.params
                                                 THEN fileLast.request.params.timeout ELSE 300,
                                                 " seconds">>,
                                    returncode |-> -1])]
        /\ fileLast.call.raised # "none" =>
              /\ fileLast.call.response.error # None
              /\ fileLast.call.response.error[1].code = -32000

\* C15: a write_file with binary true and content Base64(b) leaves exactly
\* the bytes b in the file, and a read_file of that path that follows it
\* returns binary true and the content Base64(b).
C15_BinaryRoundTrip ==
    /\ (nFileOps > 0 /\ fileLast.request.method = "write_file"
          /\ fileLast.call.raised = "none" /\ lastWrite.binary) =>
          b64encode(fs[lastWrite.path].data) = lastWrite.content
    /\ (nFileOps > 0 /\ fileLast.request.method = "read_file"
          /\ fileLast.call.raised = "none" /\ lastWrite.binary
          /\ fileLast.call.response.result[1].path = lastWrite.path) =>
          /\ "binary" \in DOMAIN fileLast.call.response.result[1]
          /\ fileLast.call.response.result[1].binary
          /\ fileLast.call.response.result[1].content = lastWrite.content

\* C16: ssh_session_close and ssh_session_command for a session id the
\* Session Manager does not hold (never opened, or closed already) are
\* answered with -32602 and leave the three session maps as they were;
\* ssh_session_close for an id it holds answers closed true and the id is
\* in none of the maps afterwards.
C16_UnknownSessionId ==
    (nServed > 0
        /\ agentLast.request.method \in {"ssh_session_close", "ssh_session_command"}
        /\ "session_id" \in DOMAIN agentLast.request.params) =>
        /\ agentLast.request.params.session_id \notin agentLast.before.shells =>
              /\ LastResponse.error # None
              /\ LastResponse.error[1].code = -32602
              /\ Sessions = agentLast.before
        /\ (agentLast.request.method = "ssh_session_close"
              /\ agentLast.request.params.session_id \in agentLast.before.shells) =>
              /\ LastResponse.error = None
              /\ LastResponse.result[1].closed
              /\ agentLast.request.params.session_id \notin ssh_shells
              /\ agentLast.request.params.session_id \notin ssh_clients
              /\ agentLast.request.params.session_id \notin DOMAIN ssh_session_info

\* C16 witness: a session was opened and closed, and a second close of the
\* same id was answered with -32602.
C16_Witness ==
    /\ nServed = 3
    /\ agentLast.request.method = "ssh_session_close"
    /\ agentLast.request.params = [session_id |-> "5f3a9c01"]
    /\ agentLast.before.shells = {}
    /\ erredBefore = FALSE
    /\ LastResponse.error[1].code = -32602

\* C17: a failed ssh_session_open is answered by the kind of failure: an
\* authentication failure with -32602 and a message that says so, a network
\* or SSH-protocol failure with -32000; no session is stored in either case.
C17_OpenFailureCodes ==
    (nServed > 0 /\ agentLast.request.method = "ssh_session_open"
        /\ agentLast.call.raised \in {"ValueError", "ConnectionError", "OSError"}) =>
        /\ Sessions = agentLast.before
        /\ LastResponse.error # None
        /\ agentLast.call.raised = "ValueError" =>
              /\ LastResponse.error[1].code = -32602
              /\ LastResponse.error[1].message = "Authentication failed"
        /\ agentLast.call.raised \in {"ConnectionError", "OSError"} =>
              LastResponse.error[1].code = -32000

\* C18: after close_all no session is left in any of the three maps and
\* list_sessions counts 0, whatever sessions were open and whichever of
\* them raise while their shell or client is closed.
C18_CloseAllLeavesNone ==
    shutdownLast.done =>
        /\ ssh_clients = {}
        /\ ssh_shells = {}
        /\ DOMAIN ssh_session_info = {}
        /\ list_sessions(Sessions).count = 0

\* C18 witness: close_all ran with two sessions open, both raising on close.
C18_Witness ==
    /\ shutdownLast.done
    /\ Cardinality(shutdownLast.before.shells) = 2
    /\ shutdownLast.closeFails = shutdownLast.before.shells
    /\ ssh_shells = {}

\* The request carries the configured key: as "Bearer <key>" in the
\* Authorization header or as the value of a token field of the query.
CarriesKey(scope, key) ==
    \/ scope.authorization = Some(Utf8Encode(BearerPrefix \o key))
    \/ \E i \in 1..Len(scope.query) :
           scope.query[i].name = "token" /\ scope.query[i].value = key

\* A scope served by an application with a key configured, without the key.
ServedWithoutKey ==
    /\ nHttp > 0
    /\ http_app.auth
    /\ ~CarriesKey(httpLast.scope, http_app.api_key[1])

\* C19: with an API key configured, an HTTP request to a non-public path
\* that carries neither a matching Bearer header nor a matching token query
\* parameter is answered 401 and the wrapped application is not invoked for
\* it; a WebSocket connection without a matching token is closed with code
\* 4001 and does not reach the handler.
C19_UnauthenticatedRejected ==
    ServedWithoutKey =>
        /\ (httpLast.scope.type = "http"
              /\ ~AuthMiddleware_is_public_path(httpLast.scope.path))
           => /\ httpLast.out.status = 401
              /\ ~httpLast.out.app
              /\ appCalls = httpLast.appCallsBefore
        /\ httpLast.scope.type = "websocket"
           => /\ httpLast.out.close = 4001
              /\ ~httpLast.out.app
              /\ appCalls = httpLast.appCallsBefore

\* The paths the specification leaves open: the health endpoint, the
\* registration webhook, and the static UI (the asset mounts and the two
\* pages that serve index.html).
SpecPublic(path) ==
    \/ path \in {<<"health">>, <<"internal", "register">>, <<"">>, <<"client">>}
    \/ Len(path) >= 2 /\ path[1] \in StaticPrefixes

\* C20: with an API key configured, an HTTP request without the key reaches
\* the application only on the health endpoint, the /internal/register
\* webhook or a static UI asset, and never reaches an endpoint that returns
\* client or fleet data.
C20_PublicPathsLimited ==
    (ServedWithoutKey /\ httpLast.scope.type = "http" /\ httpLast.out.app)
        => /\ SpecPublic(httpLast.scope.path)
           /\ httpLast.out.endpoint \notin ClientDataEndpoints

\* The last operator request left the pool, the history and the event store
\* as they were, acquired no connection and sent no RPC.
NothingDone ==
    /\ ~apiLast.out.acquired
    /\ apiLast.out.rpc = ""
    /\ apiLast.after = apiLast.before

\* C21: for run, files.list, files.preview, files.download and files.upload,
\* a request for an unknown client uuid is answered 404 and a request for a
\* known but offline client is answered 503; in both cases no pool connection
\* is acquired, no RPC is sent, and no history record or event is written.
C21_UnknownAndOfflineRefused ==
    (nApi > 0 /\ apiLast.wellFormed) =>
        /\ ~apiLast.info.found => (apiLast.out.status = 404 /\ NothingDone)
        /\ (apiLast.info.found /\ ~apiLast.info.online)
               => (apiLast.out.status = 503 /\ NothingDone)

\* An upload for a client that has gone offline, after a command was run on
\* it: the history has a record and the store an event that must stay.
C21_Witness ==
    /\ apiLast.op = "files.upload"
    /\ apiLast.wellFormed
    /\ apiLast.info.found /\ ~apiLast.info.online
    /\ apiLast.out.status = 503
    /\ Len(apiLast.before.history) = 1
    /\ apiLast.before.pool[apiLast.uuid] # NoEntry

\* The last operator request was a run that passed the body, exists and
\* online checks.
RunPassedChecks ==
    /\ nApi > 0
    /\ apiLast.op = "run"
    /\ apiLast.wellFormed
    /\ apiLast.info.found /\ apiLast.info.online

C23_TransportFailureIs503 ==
    (/\ nApi > 0
     /\ apiLast.wellFormed
     /\ apiLast.info.found /\ apiLast.info.online
     /\ apiLast.env # "ok")
        => apiLast.out.status = 503

\* C26: the first message delivered to a WebSocket subscriber is the
\* initial snapshot: no typed event is delivered before it.
C26_SnapshotFirst ==
    \A w \in WebSockets :
        wsHandlers[w].delivered # <<>> => wsHandlers[w].delivered[1] = "initial_state"

\* C27: every event added to the event store by the registration path or
\* the command path is also sent, as a message of the same type, to every
\* WebSocket subscriber connected at that time.
C27_EventsArePushed ==
    [][events' # events =>
          \A w \in ws_connections :
              wsHandlers'[w].delivered = Append(wsHandlers[w].delivered, events'[1].type)]_vars

\* The clock reading an ISO string of the model was made from.
fromisoformat(str) ==
    [s |-> str[1] - 48, us |-> IF str[2] = 46 THEN str[3] - 48 ELSE 0]

\* a is not later than b.
TimeLeq(a, b) == a.s < b.s \/ (a.s = b.s /\ a.us <= b.us)

\* The rows of the queried table that a query for uuid and status is about.
QueryMatches ==
    {i \in 1..Len(historyLast.table) :
        /\ historyLast.table[i].client_uuid = historyLast.uuid
        /\ historyLast.status = "success" => historyLast.table[i].returncode = 0
        /\ historyLast.status = "failed" => historyLast.table[i].returncode # 0}

Min(a, b) == IF a < b THEN a ELSE b

OutsideAllowList(allowed, path) ==
    /\ allowed # None
    /\ \A i \in 1..Len(allowed[1]) :
           LET base == Resolve(allowed[1][i], FileLinks)
               p == Resolve(path, FileLinks)
           IN  Len(p) < Len(base) \/ SubSeq(p, 1, Len(base)) # base

\* C28: an SFTP rename whose old or new path is outside the allow-list
\* returns PERMISSION_DENIED and leaves the filesystem as it was: the source
\* is not moved and no parent directory of the destination is made.
C28_RenameValidatesBoth ==
    (/\ sftpLast.called
     /\ \/ OutsideAllowList(sftp_allowed_paths, sftpLast.oldpath)
        \/ OutsideAllowList(sftp_allowed_paths, sftpLast.newpath))
    => /\ sftpLast.code = SFTP_PERMISSION_DENIED
       /\ fs = sftpLast.before

\* The directory /a, inside the allow-list, was to be moved to /f/f, outside
\* it and with a missing parent: refused, and /f was not made.
C28_Witness ==
    /\ sftpLast.called
    /\ sftp_allowed_paths = Some(<< <<CompA>> >>)
    /\ sftpLast.oldpath = <<CompA>>
    /\ sftpLast.newpath = <<CompF, CompF>>
    /\ sftpLast.code = SFTP_PERMISSION_DENIED
    /\ <<CompF>> \notin DOMAIN fs

\* The failures at the end of a sequence of heartbeat results.
RECURSIVE TrailingFailures(_)
TrailingFailures(log) ==
    IF log = <<>> \/ log[Len(log)].ok THEN 0
    ELSE 1 + TrailingFailures(SubSeq(log, 1, Len(log) - 1))

\* The heartbeats of u since its last reset_health that came after the grace
\* deadline.
CountedBeats(u) ==
    SelectSeq(beats[u], LAMBDA b : b.epoch = nRegs /\ ~b.grace)

\* K consecutive heartbeats of u have failed since the grace deadline.
ThresholdCrossed(u) == TrailingFailures(CountedBeats(u)) >= failure_threshold

\* C29: after reset_health no heartbeat failure is counted until the grace
\* deadline has passed; after it the count is the number of consecutive
\* failures (a success resets it), the client goes offline exactly when K
\* consecutive heartbeats have failed, and client.disconnected is emitted
\* once, at that transition; a client is online iff the Registry has a live
\* Connection for it and the threshold has not been crossed.
C29_HealthThreshold ==
    /\ [](\A u \in Uuids :
            /\ health[u].consecutive_failures = TrailingFailures(CountedBeats(u))
            /\ describe_client(identities, connections, u).online
                   <=> (ConnectionsOf(connections, u) # {} /\ ~ThresholdCrossed(u)))
    /\ [][\A u \in Uuids :
            (~ThresholdCrossed(u) /\ ThresholdCrossed(u)')
                <=> emitted' = Append(emitted, ClientDisconnected(u))]_vars

\* A failure in the grace period, then after the deadline a success and K
\* failures: the client is offline and one event was emitted.
C29_Witness ==
    /\ Len(beats["U1"]) = failure_threshold + 2
    /\ beats["U1"][1].grace /\ ~beats["U1"][1].ok
    /\ ~beats["U1"][2].grace /\ beats["U1"][2].ok
    /\ \A i \in 3..Len(beats["U1"]) : ~beats["U1"][i].ok /\ beats["U1"][i].epoch = nRegs
    /\ health["U1"].consecutive_failures = failure_threshold
    /\ ~describe_client(identities, connections, "U1").online
    /\ emitted = <<ClientDisconnected("U1")>>

\* C30: send_command always terminates: a call that was made returns, even
\* when the remote shell produces output forever.
C30_SendCommandTerminates ==
    (sendCall.pc # "idle") ~> (sendCall.pc = "done")

\* A broadcast is inside its critical section.
Iterating(b) == ws_broadcasts[b].pc = "sending"

\* C31: the connection set is changed only under the manager's lock: while a
\* broadcast iterates the set it holds the lock and no connect or disconnect
\* changes the set; when the broadcast finishes, in that same critical
\* section, every socket whose send failed has been removed and every socket
\* whose send succeeded is still registered.
C31_SetChangesUnderLock ==
    [][\A b \in Broadcasts :
          Iterating(b) =>
              /\ ws_lock = HeldByBroadcast(b)
              /\ Iterating(b)' => ws_connections' = ws_connections
              /\ ~Iterating(b)' =>
                     /\ ws_broadcasts'[b].pc = "done"
                     /\ ws_lock' = NoHolder
                     /\ ws_connections' \cap ws_broadcasts[b].failed = {}
                     /\ ws_broadcasts[b].sent \subseteq ws_connections'
                     /\ ws_broadcasts[b].sent \cup ws_broadcasts[b].failed
                            = ws_connections]_vars

\* A broadcast finished with one send failed and one sent, while a handler
\* was waiting at the lock to connect or to disconnect.
C31_Witness ==
    \E b \in Broadcasts :
        /\ ws_broadcasts[b].pc = "done"
        /\ ws_broadcasts[b].failed = {"w1"}
        /\ ws_broadcasts[b].sent = {"w2"}
        /\ ws_connections = {"w2"}
        /\ wsHandlers["w1"].pc = "finally"

\* C40: a websocket_handler that has terminated, by disconnect or by an
\* error, the snapshot's failure included, has no socket in the manager's
\* connection set.
C40_TerminatedHandlerUnregistered ==
    \A w \in WebSockets : wsHandlers[w].pc = "terminated" => w \notin ws_connections

\* The snapshot of w1 failed after it connected and its handler has ended,
\* while w2 stays registered.
C40_Witness ==
    /\ wsHandlers["w1"].pc = "terminated"
    /\ wsHandlers["w1"].delivered = <<>>
    /\ \E b \in Broadcasts : "w1" \in ws_broadcasts[b].todo \cup ws_broadcasts[b].failed
    /\ "w2" \in ws_connections

\* C32: the agent dispatcher's path validator and the SFTP subsystem's are
\* equivalent: for every allow-list (null, empty or a list) and every path,
\* both accept or both deny, and on acceptance both return the same resolved
\* path.
C32_ValidatorsEquivalent ==
    pathLast.who # "none" =>
        LET byAgent == Agent_validate_path(pathLast.allowed_paths, pathLast.links,
                                           pathLast.path)
            bySftp == ClientSFTPInterface_validate_path(pathLast.allowed_paths,
                                                        pathLast.links, pathLast.path)
        IN  /\ pathLast.result = IF pathLast.who = "agent" THEN byAgent ELSE bySftp
            /\ byAgent.kind = bySftp.kind
            /\ byAgent.kind = "ok" => byAgent.resolved = bySftp.resolved

\* The agent's validator refused a path under the empty allow-list, and the
\* SFTP validator refuses it too.
C32_Witness ==
    /\ pathLast.who = "agent"
    /\ pathLast.allowed_paths = Some(<<>>)
    /\ pathLast.path = <<CompA, CompF>>
    /\ pathLast.result.kind = "PermissionError"
    /\ ClientSFTPInterface_validate_path(pathLast.allowed_paths, pathLast.links,
                                         pathLast.path).kind = "PermissionError"

\* C33: SFTP open translates the flags to a file mode (read-only to read,
\* O_WRONLY to write, or append with O_APPEND, O_RDWR to read/write, or
\* append with O_APPEND), and every open whose flags request writing
\* (O_WRONLY or O_RDWR) has the parent directories of its target when the
\* file is opened.
C33_OpenMakesParents ==
    (sftpOpenLast.called /\ sftpOpenLast.code # SFTP_PERMISSION_DENIED) =>
        LET flags == sftpOpenLast.flags
            target == Resolve(sftpOpenLast.path, FileLinks)
        IN  /\ sftpOpenLast.mode =
                   IF "O_WRONLY" \in flags
                   THEN IF "O_APPEND" \in flags THEN "ab" ELSE "wb"
                   ELSE IF "O_RDWR" \in flags
                        THEN IF "O_APPEND" \in flags THEN "ab+" ELSE "rb+"
                        ELSE "rb"
            /\ (flags \cap {"O_WRONLY", "O_RDWR"} # {})
                   => \A q \in Ancestors(target) : q \in DOMAIN fs

\* The tasks inside a database section of the store.
InDatabaseSection == {t \in StoreTasks : hs_tasks[t].pc \in {"init_locked", "in_section"}}

\* C34: every database access of the store runs under its lock, so at most
\* one task is inside a database section; under any interleaving of
\* concurrent first calls the schema is initialised exactly once and before
\* any statement of those calls runs; and no interleaving deadlocks on the
\* lock: a task that waits for it waits for a task that is inside a section.
C34_StoreSerialized ==
    /\ Cardinality(InDatabaseSection) <= 1
    /\ \A t \in InDatabaseSection : hs_store.lock = HeldByBroadcast(t)
    /\ hs_store.init_count <= 1
    /\ hs_store.early = 0
    /\ \A t \in StoreTasks :
           hs_tasks[t].pc \in {"op_wait", "in_section", "done"}
               => hs_store.initialized /\ hs_store.init_count = 1
    /\ hs_store.lock.held => hs_store.lock.by \in InDatabaseSection

\* Two first calls both saw the store uninitialised; one initialised the
\* schema, the other took the lock after it and found it done; both ran
\* their statements.
C34_Witness ==
    /\ \A t \in StoreTasks : hs_tasks[t].pc = "done"
    /\ hs_tasks[1].method = "add" /\ hs_tasks[2].method = "get"
    /\ hs_store.init_count = 1
    /\ hs_store.statements = MaxStoreTasks

\* "MM-DDT..." read back as a date and a time.
fromisoformat_date(str) ==
    LET time == fromisoformat(SubSeq(str, 7, Len(str)))
    IN  [mo |-> (str[1] - 48) * 10 + (str[2] - 48),
         d |-> (str[4] - 48) * 10 + (str[5] - 48),
         s |-> time.s, us |-> time.us]

\* The day before a date.
Yesterday(date) ==
    IF date.d > 1 THEN [mo |-> date.mo, d |-> date.d - 1]
    ELSE [mo |-> date.mo - 1, d |-> DaysInMonth(date.mo - 1)]

RECURSIVE DaysBefore(_, _)
DaysBefore(date, n) == IF n = 0 THEN date ELSE DaysBefore(Yesterday(date), n - 1)

\* The time dt is earlier than midnight of the date.
BeforeMidnightOf(dt, date) == dt.mo < date.mo \/ (dt.mo = date.mo /\ dt.d < date.d)

\* The rows of the table delete_old(days) has to delete.
Expired ==
    {i \in 1..Len(storeLast.table) :
        BeforeMidnightOf(fromisoformat_date(storeLast.table[i].completed_at),
                         DaysBefore([mo |-> storeLast.now.mo, d |-> storeLast.now.d],
                                    storeLast.days))}

\* C35: for every days >= 0 and every current date delete_old(days)
\* completes without an error, deletes exactly the records whose
\* completed_at is earlier than midnight UTC of the day `days` days before
\* today, returns the number of records deleted and leaves the others as
\* they were.
C35_DeleteOld ==
    storeLast.op = "delete_old" =>
        /\ ~storeLast.raised
        /\ storeLast.deleted = Cardinality(Expired)
        /\ history = SelectSeq(storeLast.table, LAMBDA row :
               ~BeforeMidnightOf(fromisoformat_date(row.completed_at),
                                 DaysBefore([mo |-> storeLast.now.mo, d |-> storeLast.now.d],
                                            storeLast.days)))

\* C38: history reads scoped to a client uuid return only records of that
\* client: the list holds only records whose client_uuid is the uuid asked
\* for, the lookup of a command_id returns only such a record, and the
\* lookup answers 404 for a command_id that belongs to another client.
C38_HistoryScoped ==
    /\ \A u \in Uuids :
           LET page == list_for_client(history, u, -1, 0, None)
           IN  \A i \in 1..Len(page.records) : page.records[i].client_uuid = u
    /\ storeLast.op = "detail" =>
           /\ storeLast.status = 200 => storeLast.record[1].client_uuid = storeLast.uuid
           /\ (\E i \in 1..Len(storeLast.table) :
                   /\ storeLast.table[i].id = storeLast.id
                   /\ storeLast.table[i].client_uuid # storeLast.uuid)
                  => storeLast.status = 404

C37_ConnectionLifecycle ==
    /\ is_connected(sftp_conn) => sftp_conn.ssh_client /\ sftp_conn.sftp
    /\ (connLast.op = "connect" /\ connLast.env # "ok" /\ ~connLast.before.connected)
           => sftp_conn = ClosedConnection /\ connLast.raised = connLast.env
    /\ (connLast.op = "connect" /\ is_connected(connLast.before))
           => sftp_conn = connLast.before /\ connLast.io = 0 /\ connLast.raised = ""
    /\ (connLast.op = "close" /\ connLast.before = ClosedConnection)
           => sftp_conn = ClosedConnection /\ connLast.io = 0 /\ connLast.raised = ""
    /\ (connLast.op \in ConnectionOps /\ ~is_connected(connLast.before))
           => /\ connLast.raised = "SFTP not connected"
              /\ connLast.io = 0
              /\ sftp_conn = connLast.before

\* A connect failed at open_sftp, after the SSH client had connected: the
\* object is closed again, and this is the third call.
C37_Witness ==
    /\ connLast.op = "connect" /\ connLast.raised = "open_sftp fails"
    /\ connLast.io = 3
    /\ sftp_conn = ClosedConnection
    /\ nConnOps = MaxConnOps

\* C39: for every byte string b, text or not UTF-8, an upload of b to a
\* path followed by a download of that path returns exactly b.
C39_UploadDownloadRoundTrip ==
    (transferLast.stage = "downloaded" /\ transferLast.uploaded = 200)
        => /\ transferLast.downloaded = 200
           /\ transferLast.data = transferLast.content

====
